---- MODULE Spec2Model ----
(***************************************************************************)
(* A model of the SIMD-Swift hardening passes of tudinfse/elzar            *)
(* (src/src/simdswift/pass/avxswift.cpp, avxfloatswift.cpp).               *)
(*                                                                         *)
(* The pass works on a function in SSA form.  The function is the state:   *)
(* a table of values (arguments and instructions), the basic blocks, the   *)
(* shadow map and the three work lists of SwiftTransformer.  One action    *)
(* models one call of a method of the pass.  The assert(...) statements of *)
(* the source are modelled as what they are documented to be: the pass     *)
(* stops there (aborted = TRUE) and does nothing more.                     *)
(*                                                                         *)
(* Run-time values are little-endian byte strings: an i32 is 4 bytes, a    *)
(* 256-bit register is 32 bytes, a bitcast regroups the same bytes.        *)
(***************************************************************************)
EXTENDS Integers, Sequences, FiniteSets, TLC

VARIABLES
    variant,        \* "full" (avxswift.cpp), "fp" (avxfloatswift.cpp) or "native"
                    \* (slownative.cpp)
    linked,         \* names of the functions the module holds
    helpers,        \* the global Function* variables findHelperFuncs sets
    flags,          \* the no-check-* command-line options that are set
    prog,           \* index of the input function (0: none)
    vals,           \* value table: id -> argument / instruction record
    blocks,         \* block id -> sequence of instruction ids
    layout,         \* block ids in function order
    simds,          \* ValueSimdMap::vsm
    origs,          \* SwiftTransformer::origs
    phis,           \* SwiftTransformer::phis
    tocheck,        \* SwiftTransformer::tocheck
    pc,             \* position inside SwiftPass::runOnFunction
    todo,           \* blocks the current traversal loop still has to visit
    cur,            \* the traversal's iterator: block and instruction (0: none)
    visited,        \* runOnFunction's local set of visited blocks
    shadowedArgs,   \* runOnFunction's local flag
    aborted,        \* an assert(...) of the pass failed
    trace,          \* history: what the pass did so far, in order
    run,            \* how many times the pass was started on the function
    ret,            \* result of the last shadow-map call (map-level spec)
    exec            \* what running the function, before and after the pass, shows

vars == <<variant, linked, helpers, flags, prog, vals, blocks, layout, simds, origs, phis,
          tocheck, pc, todo, cur, visited, shadowedArgs, aborted, trace, run, ret, exec>>

(***************************************************************************)
(* Types.  A type is [e, n]: element kind and lane count (n = 0: scalar).  *)
(***************************************************************************)
Ty(e, n) == [e |-> e, n |-> n]

IntKinds == {"i1", "i8", "i16", "i32", "i64", "i128", "i256"}

Bits(e) ==
    CASE e = "i1"     -> 1
      [] e = "i8"     -> 8
      [] e = "i16"    -> 16
      [] e = "i32"    -> 32
      [] e = "i64"    -> 64
      [] e = "i128"   -> 128
      [] e = "i256"   -> 256
      [] e = "ptr"    -> 64
      [] e = "float"  -> 32
      [] e = "double" -> 64
      [] OTHER        -> 0

\* bytes one lane occupies in a run-time value (an i1 is kept in one byte)
W(e) == IF Bits(e) = 1 THEN 1 ELSE Bits(e) \div 8

\* the integer kind of a given bit width
IntOfBits(b) == CHOOSE e \in IntKinds : Bits(e) = b

IsVectorTy(t) == t.n > 0
IsIntegerTy(t) == t.n = 0 /\ t.e \in IntKinds
IsStructTy(t) == t.n = 0 /\ t.e = "struct"
IsVoidTy(t) == t.n = 0 /\ t.e = "void"

(***************************************************************************)
(* Byte strings.                                                           *)
(***************************************************************************)
Rep(s, n) == [i \in 1..(n * Len(s)) |-> s[((i - 1) % Len(s)) + 1]]

RECURSIVE BytesOf(_, _)
BytesOf(k, w) == IF w = 0 THEN <<>> ELSE <<k % 256>> \o BytesOf(k \div 256, w - 1)

AllOnesBytes(w) == [i \in 1..w |-> 255]
ZeroBytes(w) == [i \in 1..w |-> 0]

\* zext / sext / trunc of one lane from kind a to kind b
ZExtLane(s, a, b) == s \o ZeroBytes(W(b) - W(a))

SExtLane(s, a, b) ==
    LET neg == IF a = "i1" THEN s[1] % 2 = 1 ELSE s[Len(s)] >= 128
    IN IF a = "i1"
       THEN (IF neg THEN AllOnesBytes(W(b)) ELSE ZeroBytes(W(b)))
       ELSE s \o (IF neg THEN AllOnesBytes(W(b) - W(a)) ELSE ZeroBytes(W(b) - W(a)))

TruncLane(s, a, b) == IF b = "i1" THEN <<s[1] % 2>> ELSE SubSeq(s, 1, W(b))

(***************************************************************************)
(* Values.  A reference to a value is a record: k = "v" names an entry of  *)
(* the value table (an argument or an instruction), "c" a constant (LLVM   *)
(* constants are uniqued, so a constant is its type and bytes), "fn" a     *)
(* function symbol, "bb" a basic block label, "asm" an inline-asm literal, *)
(* "md" metadata, "none" the null pointer.                                 *)
(***************************************************************************)
NoTy == Ty("void", 0)
None == [k |-> "none", id |-> 0, ty |-> NoTy, val |-> <<>>, name |-> ""]
V(id) == [k |-> "v", id |-> id, ty |-> NoTy, val |-> <<>>, name |-> ""]
C(t, bytes) == [k |-> "c", id |-> 0, ty |-> t, val |-> bytes, name |-> ""]
CInt(e, x) == C(Ty(e, 0), BytesOf(x, W(e)))
Fn(nm) == [k |-> "fn", id |-> 0, ty |-> Ty("ptr", 0), val |-> BytesOf(64, W("ptr")), name |-> nm]
BB(b) == [k |-> "bb", id |-> b, ty |-> Ty("label", 0), val |-> <<>>, name |-> ""]
Asm(nm) == [k |-> "asm", id |-> 0, ty |-> Ty("ptr", 0), val |-> <<>>, name |-> nm]
Md == [k |-> "md", id |-> 0, ty |-> Ty("metadata", 0), val |-> <<>>, name |-> ""]

\* an entry of the value table
\* op: opcode; ty: result type; ops: operands in LLVM's operand order (a call's
\* callee is kept apart); pred: comparison predicate; succ: successor blocks of
\* a terminator, incoming blocks of a phi; imm: shuffle mask, lane index or
\* element size
Inst(op, t, ops, pred, succ, callee, imm) ==
    [op |-> op, ty |-> t, ops |-> ops, pred |-> pred, succ |-> succ,
     callee |-> callee, imm |-> imm]
I3(op, t, ops) == Inst(op, t, ops, "", <<>>, None, <<>>)
Arg(t) == I3("arg", t, <<>>)

TypeOf(vs, v) == IF v.k = "v" THEN vs[v.id].ty ELSE v.ty
OpOf(vs, v) == IF v.k = "v" THEN vs[v.id].op ELSE ""

\* isa<Constant>: constants and global values, a Function among them
IsConstant(v) == v.k \in {"c", "fn"}
\* isa<Instruction>
IsInstruction(vs, v) == v.k = "v" /\ vs[v.id].op # "arg"

(***************************************************************************)
(* Shadow-type utility, full hardener.  A result [ok, ..] with ok = FALSE  *)
(* is the failed assert of getSimdNum's default case.                      *)
(***************************************************************************)
\* a table with four lanes for every type
GetSimdNumFour(t) == [ok |-> ~IsVectorTy(t) /\ ~IsStructTy(t), n |-> 4]

GetSimdNum(t) ==
    IF IsIntegerTy(t)
    THEN IF Bits(t.e) = 1 THEN [ok |-> TRUE, n |-> 4]
         ELSE IF Bits(t.e) \notin {8, 16, 32, 64} THEN [ok |-> TRUE, n |-> 4]
         ELSE [ok |-> TRUE, n |-> 256 \div Bits(t.e)]
    ELSE IF t.n = 0 /\ t.e = "ptr" THEN [ok |-> TRUE, n |-> 4]
    ELSE IF t.n = 0 /\ t.e = "double" THEN [ok |-> TRUE, n |-> 4]
    ELSE IF t.n = 0 /\ t.e = "float" THEN [ok |-> TRUE, n |-> 8]
    ELSE [ok |-> FALSE, n |-> 0]

GetSimdType(t) ==
    IF t = Ty("i1", 0) THEN [ok |-> TRUE, ty |-> Ty("i64", 4)]
    ELSE [ok |-> GetSimdNum(t).ok, ty |-> Ty(t.e, GetSimdNum(t).n)]

\* t->isVectorTy() && t->getVectorNumElements() == getSimdNum(t)
IsSimdType(t) ==
    IF ~IsVectorTy(t) THEN [ok |-> TRUE, b |-> FALSE]
    ELSE [ok |-> GetSimdNum(t).ok, b |-> t.n = GetSimdNum(t).n]

(***************************************************************************)
(* Shadow-type utility, FP-only hardener.                                  *)
(***************************************************************************)
GetSimdNumFP(t) ==
    IF t.n = 0 /\ t.e = "double" THEN 4
    ELSE IF t.n = 0 /\ t.e = "float" THEN 8
    ELSE 0

IsSimdTypeFP(t) == IsVectorTy(t) /\ t.n = GetSimdNumFP(t)

(***************************************************************************)
(* ValueSimdMap.  Every operation returns [ok, map / r]; ok = FALSE is a   *)
(* failed assert.                                                          *)
(***************************************************************************)
HasSimd(vsm, v) == v \in DOMAIN vsm

MapAddOverwrite(vsm, v, s) ==
    [ok |-> ~HasSimd(vsm, v), map |-> [x \in DOMAIN vsm \cup {v} |-> IF x = v THEN s ELSE vsm[x]]]

MapAdd(vsm, v, s) ==
    IF HasSimd(vsm, v)
    THEN [ok |-> FALSE, map |-> vsm]
    ELSE [ok |-> TRUE, map |-> [x \in DOMAIN vsm \cup {v} |-> IF x = v THEN s ELSE vsm[x]]]

\* ConstantVector::getSplat (the splat of a function symbol keeps its name)
Splat(c, num) == [C(Ty(c.ty.e, num), Rep(c.val, num)) EXCEPT !.name = c.name]

\* the kinds avxswift.cpp:230-232 and avxfloatswift.cpp:181-183 name
IsOpaqueKind(vs, v) ==
    \/ v.k \in {"bb", "fn", "asm", "md"}
    \/ OpOf(vs, v) \in {"invoke", "landingpad"}

GetSimdFull(vs, vsm, v, I) ==
    IF v = None THEN [ok |-> TRUE, r |-> None]
    ELSE LET t == TypeOf(vs, v)
             st == IsSimdType(t)
         IN IF ~st.ok THEN [ok |-> FALSE, r |-> None]
            ELSE IF st.b THEN [ok |-> TRUE, r |-> v]
            ELSE IF IsConstant(v)
            THEN LET c == IF t = Ty("i1", 0)
                          THEN C(Ty("i64", 0), SExtLane(v.val, "i1", "i64"))
                          ELSE C(t, v.val)
                     num == GetSimdNum(c.ty)
                 IN IF ~num.ok THEN [ok |-> FALSE, r |-> None]
                    ELSE IF OpOf(vs, I) = "getelementptr"
                    THEN [ok |-> TRUE, r |-> Splat(c, 4)]
                    ELSE [ok |-> TRUE, r |-> Splat(c, num.n)]
            ELSE IF IsOpaqueKind(vs, v) THEN [ok |-> TRUE, r |-> None]
            ELSE IF ~HasSimd(vsm, v) THEN [ok |-> FALSE, r |-> None]
            ELSE [ok |-> TRUE, r |-> vsm[v]]

\* a lookup that asks for a shadow of every value, whatever its type
GetSimdFPOfAnyType(vs, vsm, v, I) ==
    IF v = None \/ IsOpaqueKind(vs, v) THEN [ok |-> TRUE, r |-> None]
    ELSE IF IsConstant(v) THEN [ok |-> TRUE, r |-> Splat(v, 4)]
    ELSE IF ~HasSimd(vsm, v) THEN [ok |-> FALSE, r |-> None]
    ELSE [ok |-> TRUE, r |-> vsm[v]]

GetSimdFP(vs, vsm, v, I) ==
    IF v = None THEN [ok |-> TRUE, r |-> None]
    ELSE LET t == TypeOf(vs, v)
         IN IF IsSimdTypeFP(t) THEN [ok |-> TRUE, r |-> v]
            ELSE IF IsOpaqueKind(vs, v) THEN [ok |-> TRUE, r |-> None]
            ELSE IF t = Ty("i1", 0)
            THEN [ok |-> TRUE, r |-> IF HasSimd(vsm, v) THEN vsm[v] ELSE None]
            ELSE IF ~(t = Ty("float", 0) \/ t = Ty("double", 0)) THEN [ok |-> TRUE, r |-> None]
            ELSE IF IsConstant(v) THEN [ok |-> TRUE, r |-> Splat(v, GetSimdNumFP(t))]
            ELSE IF ~HasSimd(vsm, v) THEN [ok |-> FALSE, r |-> None]
            ELSE [ok |-> TRUE, r |-> vsm[v]]

GetSimd(var, vs, vsm, v, I) ==
    IF var = "full" THEN GetSimdFull(vs, vsm, v, I) ELSE GetSimdFP(vs, vsm, v, I)

(***************************************************************************)
(* Instruction semantics on byte strings.  Used by the IR builder's        *)
(* constant folder and by the interpreter of the original and of the       *)
(* hardened function.                                                      *)
(***************************************************************************)
NLanes(t) == IF t.n = 0 THEN 1 ELSE t.n

Lane(x, t, i) == SubSeq(x, (i - 1) * W(t.e) + 1, i * W(t.e))

RECURSIVE Flatten(_)
Flatten(ss) == IF ss = <<>> THEN <<>> ELSE Head(ss) \o Flatten(Tail(ss))

\* apply a lane function to every lane of x (of type t)
MapLanes(F(_), x, t) == Flatten([i \in 1..NLanes(t) |-> F(Lane(x, t, i))])

BitF(opc, x, y) ==
    CASE opc = "and" -> x * y
      [] opc = "or"  -> x + y - x * y
      [] opc = "xor" -> (x + y) % 2

RECURSIVE ByteOp(_, _, _, _)
ByteOp(opc, a, b, k) ==
    IF k = 0 THEN 0
    ELSE BitF(opc, a % 2, b % 2) + 2 * ByteOp(opc, a \div 2, b \div 2, k - 1)

BitwiseBytes(opc, a, b) == [i \in 1..Len(a) |-> ByteOp(opc, a[i], b[i], 8)]

RECURSIVE AddBytes(_, _, _)
AddBytes(a, b, carry) ==
    IF a = <<>> THEN <<>>
    ELSE LET s == Head(a) + Head(b) + carry
         IN <<s % 256>> \o AddBytes(Tail(a), Tail(b), s \div 256)

NotBytes(a) == [i \in 1..Len(a) |-> 255 - a[i]]

\* one lane of a binary operator
BinLane(opc, a, b) ==
    CASE opc \in {"and", "or", "xor"} -> BitwiseBytes(opc, a, b)
      [] opc = "add" -> AddBytes(a, b, 0)
      [] opc = "sub" -> AddBytes(a, NotBytes(b), 1)

EvalBin(opc, a, b, t) ==
    Flatten([i \in 1..NLanes(t) |-> BinLane(opc, Lane(a, t, i), Lane(b, t, i))])

\* unsigned less-than on little-endian byte strings
RECURSIVE ULess(_, _)
ULess(a, b) ==
    IF a = <<>> THEN FALSE
    ELSE LET n == Len(a)
         IN IF a[n] # b[n] THEN a[n] < b[n]
            ELSE ULess(SubSeq(a, 1, n - 1), SubSeq(b, 1, n - 1))

CmpLane(pred, a, b) ==
    LET r == CASE pred = "eq"  -> a = b
               [] pred = "ne"  -> a # b
               [] pred = "ult" -> ULess(a, b)
               [] pred = "ugt" -> ULess(b, a)
    IN IF r THEN <<1>> ELSE <<0>>

\* icmp over operands of type t: one i1 byte per lane
EvalCmp(pred, a, b, t) ==
    Flatten([i \in 1..NLanes(t) |-> CmpLane(pred, Lane(a, t, i), Lane(b, t, i))])

\* a float or double by its bits: the sign, the bits without it, and the
\* bits of infinity; what is above infinity is not a number
SignOf(x) == x[Len(x)] >= 128
Magnitude(x) == [x EXCEPT ![Len(x)] = @ % 128]
InfBytes(w) == IF w = 8 THEN <<0, 0, 0, 0, 0, 0, 240, 127>> ELSE <<0, 0, 128, 127>>
IsNaN(x) == ULess(InfBytes(Len(x)), Magnitude(x))

\* a < b for two numbers (minus zero is not less than zero)
FLess(a, b) ==
    IF SignOf(a) /\ SignOf(b) THEN ULess(Magnitude(b), Magnitude(a))
    ELSE IF SignOf(a) THEN ~(Magnitude(a) = ZeroBytes(Len(a)) /\ Magnitude(b) = ZeroBytes(Len(b)))
    ELSE IF SignOf(b) THEN FALSE
    ELSE ULess(a, b)

FCmpLane(pred, a, b) ==
    LET r == CASE pred = "ult" -> IsNaN(a) \/ IsNaN(b) \/ FLess(a, b)
               [] pred = "ugt" -> IsNaN(a) \/ IsNaN(b) \/ FLess(b, a)
    IN IF r THEN <<1>> ELSE <<0>>

\* fcmp over operands of type t: one i1 byte per lane
EvalFCmp(pred, a, b, t) ==
    Flatten([i \in 1..NLanes(t) |-> FCmpLane(pred, Lane(a, t, i), Lane(b, t, i))])

CastLane(opc, s, a, b) ==
    CASE opc = "zext"  -> ZExtLane(s, a, b)
      [] opc = "sext"  -> SExtLane(s, a, b)
      [] opc = "trunc" -> TruncLane(s, a, b)
      [] OTHER         -> s        \* ptrtoint, inttoptr: 64 bits to 64 bits

\* a cast from type ft to type tt; a bitcast keeps the bytes and regroups them
EvalCast(opc, x, ft, tt) ==
    IF opc = "bitcast" THEN x
    ELSE Flatten([i \in 1..NLanes(ft) |-> CastLane(opc, Lane(x, ft, i), ft.e, tt.e)])

\* select with a scalar (ct.n = 0) or a lane-wise i1 condition
EvalSelect(c, tv, fv, ct, vt) ==
    IF ct.n = 0 THEN (IF c[1] % 2 = 1 THEN tv ELSE fv)
    ELSE Flatten([i \in 1..NLanes(vt) |->
                    IF c[i] % 2 = 1 THEN Lane(tv, vt, i) ELSE Lane(fv, vt, i)])

\* shufflevector(x, undef, mask), mask holding lane indices of x from 0
EvalShuffle(x, t, mask) == Flatten([i \in 1..Len(mask) |-> Lane(x, t, mask[i] + 1)])

EvalExtract(x, t, idx) == Lane(x, t, idx + 1)

\* the chain of insertelement instructions createSimdValue builds
EvalSplat(s, n) == Rep(s, n)

IsZeroBytes(x) == \A i \in 1..Len(x) : x[i] = 0

\* the AVX intrinsics x86_avx_ptestz_256 and x86_avx_ptestnzc_256 (i32 result)
PTestZ(a, b) == BytesOf(IF IsZeroBytes(BitwiseBytes("and", a, b)) THEN 1 ELSE 0, 4)

PTestNZC(a, b) ==
    BytesOf(IF /\ ~IsZeroBytes(BitwiseBytes("and", a, b))
               /\ ~IsZeroBytes(BitwiseBytes("and", NotBytes(a), b))
            THEN 1 ELSE 0, 4)

\* llvm.bswap on an integer of Len(x) bytes
EvalBSwap(x) == [i \in 1..Len(x) |-> x[Len(x) + 1 - i]]

RECURSIVE MulSmall(_, _)
MulSmall(a, k) == IF k = 0 THEN ZeroBytes(Len(a)) ELSE AddBytes(a, MulSmall(a, k - 1), 0)

\* getelementptr: base + index * size, the index sign-extended to 64 bits
GepLane(p, idx, ie, size) ==
    AddBytes(p, MulSmall(IF W(ie) < 8 THEN SExtLane(idx, ie, "i64") ELSE idx, size), 0)

EvalGep(p, idx, it, size) ==
    Flatten([i \in 1..NLanes(it) |->
               GepLane(Lane(p, Ty("ptr", it.n), i), Lane(idx, it, i), it.e, size)])

(***************************************************************************)
(* The function under transformation and the IR builder.  st is the state  *)
(* of one SwiftTransformer together with the function it works on:         *)
(* [vals, blocks, layout, simds, origs, phis, tocheck, log, ok]; log is   *)
(* the history of what was done.                                           *)
(***************************************************************************)
Fail(st) == [st EXCEPT !.ok = FALSE]

\* an entry of the history: what was done, to which instruction, in which
\* block (0: none); the "start" entry of a run holds, in place of an
\* instruction, the number of values the function has at that moment
Ev(e, i, b) == [e |-> e, i |-> i, b |-> b]
Log(st, e, i) ==
    LET bs == {b \in 1..Len(st.blocks) : \E k \in 1..Len(st.blocks[b]) : st.blocks[b][k] = i}
    IN [st EXCEPT !.log = Append(@, Ev(e, i, IF bs = {} THEN 0 ELSE CHOOSE b \in bs : TRUE))]

\* the block that holds instruction i
BlockOf(bs, i) == CHOOSE b \in 1..Len(bs) : \E k \in 1..Len(bs[b]) : bs[b][k] = i

PosIn(seq, i) == CHOOSE k \in 1..Len(seq) : seq[k] = i

InsertAt(seq, k, x) == SubSeq(seq, 1, k - 1) \o <<x>> \o SubSeq(seq, k, Len(seq))

\* a new instruction placed right before instruction `anchor`
InsertBefore(st, anchor, rec) ==
    LET id == Len(st.vals) + 1
        b == BlockOf(st.blocks, anchor)
    IN [st |-> [st EXCEPT !.vals = Append(@, rec),
                          !.blocks[b] = InsertAt(@, PosIn(@, anchor), id)],
        r |-> V(id)]

AllConst(ops) == \A i \in 1..Len(ops) : ops[i].k = "c"

CastOps == {"zext", "sext", "trunc", "bitcast", "ptrtoint", "inttoptr"}
FoldableOps == CastOps \cup {"extractelement", "shufflevector", "icmp"}

\* IRBuilder's ConstantFolder: an operation on constants is a constant
FoldConst(rec) ==
    LET x == rec.ops[1]
    IN CASE rec.op = "extractelement" ->
                IF x.name # "" THEN Fn(x.name)
                ELSE C(rec.ty, EvalExtract(x.val, x.ty, rec.imm[1]))
         [] rec.op = "shufflevector"  -> C(rec.ty, EvalShuffle(x.val, x.ty, rec.imm))
         [] rec.op = "icmp"           -> C(rec.ty, EvalCmp(rec.pred, x.val, rec.ops[2].val, x.ty))
         [] OTHER                     -> C(rec.ty, EvalCast(rec.op, x.val, x.ty, rec.ty))

\* irBuilder.CreateXxx(...) with the insertion point before `anchor`
Emit(st, anchor, rec) ==
    IF rec.op \in CastOps /\ TypeOf(st.vals, rec.ops[1]) = rec.ty
    THEN [st |-> st, r |-> rec.ops[1]]
    ELSE IF rec.op \in FoldableOps /\ AllConst(rec.ops)
    THEN [st |-> st, r |-> FoldConst(rec)]
    ELSE InsertBefore(st, anchor, rec)

SetOperand(st, I, idx, r) == [st EXCEPT !.vals[I].ops[idx + 1] = r]

\* Type::getPrimitiveSizeInBits: 0 for a pointer
PrimBits(t) == IF t.e = "ptr" THEN 0 ELSE Bits(t.e)

\* an extract of the second lane
ExtractLaneOne(vs, simdOp) ==
    Inst("extractelement", Ty(TypeOf(vs, simdOp).e, 0), <<simdOp>>, "", <<>>, None, <<1>>)

ExtractRec(vs, simdOp) ==
    Inst("extractelement", Ty(TypeOf(vs, simdOp).e, 0), <<simdOp>>, "", <<>>, None, <<0>>)

\* an obligation of the tocheck list
Obl(userI, I, opIdx) == [user |-> userI, src |-> I, idx |-> opIdx]

\* dyn_cast<Instruction>(simdOp)
DynCastInst(vs, v) == IF IsInstruction(vs, v) THEN v ELSE None

ExtractSimdOpAndSubstitute(st, I, idxOp) ==
    LET opTy == TypeOf(st.vals, st.vals[I].ops[idxOp + 1])
        Subst(t) == SetOperand(t.st, I, idxOp, t.r)
        Narrow(e) == IF PrimBits(TypeOf(e.st.vals, e.r)) > PrimBits(opTy)
                     THEN Subst(Emit(e.st, I, I3("trunc", opTy, <<e.r>>)))
                     ELSE Subst(e)
        Extract(g) ==
            IF ~g.ok THEN Fail(st)
            ELSE IF g.r = None THEN st
            ELSE Narrow(Emit([st EXCEPT !.tocheck =
                                    Append(@, Obl(I, DynCastInst(st.vals, g.r), idxOp))],
                             I, ExtractRec(st.vals, g.r)))
    IN Extract(GetSimdFull(st.vals, st.simds, st.vals[I].ops[idxOp + 1], V(I)))

\* extractSimdOpAndSubstitute on operands i, i+1, .., n-1, in this order
RECURSIVE ExtractOps(_, _, _, _)
ExtractOps(st, I, i, n) ==
    IF i >= n \/ ~st.ok THEN st
    ELSE ExtractOps(ExtractSimdOpAndSubstitute(st, I, i), I, i + 1, n)

\* always <4 x i64>
GetSimdAllOnes == C(Ty("i64", 4), AllOnesBytes(32))

\* createSimdValue: the result is the last of getSimdNum insertelement
\* instructions, modelled as one instruction that replicates the scalar
CreateSimdValue(st, anchor, v) ==
    LET Build(z, gt) ==
            IF ~gt.ok THEN [st |-> Fail(st), r |-> None]
            ELSE InsertBefore(z.st, anchor, I3("insertelement", gt.ty, <<z.r>>))
        Widen(z) == Build(z, GetSimdType(TypeOf(z.st.vals, z.r)))
    IN Widen(IF TypeOf(st.vals, v) = Ty("i1", 0)
             THEN Emit(st, anchor, I3("zext", Ty("i64", 0), <<v>>))
             ELSE [st |-> st, r |-> v])

\* simds.add(v, s) inside the transformer
SimdsAdd(st, v, s) ==
    LET Put(a) == [st EXCEPT !.simds = a.map, !.ok = @ /\ a.ok]
    IN Put(MapAdd(st.simds, v, s))
\* simds.add(v, c.r) for a value c.r just built (c = [st, r])
AddShadow(c, v) == IF ~c.st.ok THEN c.st ELSE SimdsAdd(c.st, v, c.r)
\* origs.push_back(I)
Done(st, I) == [st EXCEPT !.origs = Append(@, I)]

\* createSimdValue after I, then simds.add(I, ..)
SplatResult(st, I, nextI) == AddShadow(CreateSimdValue(st, nextI, V(I)), V(I))
\* the same after a step that may have failed
ThenSplat(st, I, nextI) == IF ~st.ok THEN st ELSE SplatResult(st, I, nextI)

(***************************************************************************)
(* The per-instruction rewriter of the full hardener.                      *)
(***************************************************************************)
BinaryOps == {"add", "sub", "and", "or", "xor", "fadd", "fmul"}
CmpOps == {"icmp", "fcmp"}
AllCastOps == CastOps \cup {"fpext", "fptrunc", "fptosi", "sitofp"}

IgnoredNames == {"tx_cond_start", "tx_start", "tx_end", "tx_abort", "tx_increment",
                 "tx_pthread_mutex_lock", "tx_pthread_mutex_unlock", "__dummy__"}
\* the names of the model that start with "llvm.lifetime.start" / ".end"
LifetimeNames == {"llvm.lifetime.start", "llvm.lifetime.end"}
\* the names of the model that start with "llvm." or with "SIMDSWIFT"
PrefixedNames == {"llvm.fabs.f64", "llvm.ctpop.i32", "llvm.memset", "llvm.bswap.i32",
                  "llvm.x86.avx.ptestz.256", "llvm.x86.avx.ptestnzc.256",
                  "llvm.bswap.i256",
                  "SIMDSWIFT_exit", "SIMDSWIFT_mask_i64", "SIMDSWIFT_check_double",
                  "SIMDSWIFT_check_float", "SIMDSWIFT_check_i64", "SIMDSWIFT_check_i32",
                  "SIMDSWIFT_check_i16", "SIMDSWIFT_check_i8"}
BSwapNames == {"llvm.bswap.i32", "llvm.bswap.i256"}

\* F is the called function: a "fn" reference, or anything else for "no
\* Function" (a function pointer, inline asm)
IsIgnoredFunc(F) ==
    IF F.k # "fn" THEN FALSE
    ELSE IF F.name \in LifetimeNames THEN FALSE
    ELSE F.name \in PrefixedNames \cup IgnoredNames

\* simds.add(I, IS); irBuilderAfter.Insert(IS); origs.push_back(I)
ReplaceWith(st, I, nextI, rec) == Done(AddShadow(InsertBefore(st, nextI, rec), V(I)), I)

\* the lane-reshaping shuffle of a cast: lane i of the result is lane i mod
\* simdNumSrc of the source
ShuffleMask(simdNumSrc, simdNumDst) == [i \in 1..simdNumDst |-> (i - 1) % simdNumSrc]

\* CastInst::Create asserts castIsValid: an integer trunc must narrow, a
\* zext/sext must widen
CastIsValid(opc, se, de) ==
    CASE opc = "trunc" -> Bits(se) > Bits(de)
      [] opc \in {"zext", "sext"} -> Bits(se) < Bits(de)
      [] opc = "bitcast" -> Bits(se) = Bits(de)
      [] OTHER -> TRUE

SimdBinaryOperator(st, I, nextI) ==
    LET rec == st.vals[I]
        Bin(g0, g1) ==
            IF ~g0.ok \/ ~g1.ok \/ g0.r = None \/ g1.r = None THEN Fail(st)
            ELSE ReplaceWith(st, I, nextI, I3(rec.op, TypeOf(st.vals, g0.r), <<g0.r, g1.r>>))
    IN Bin(GetSimdFull(st.vals, st.simds, rec.ops[1], V(I)),
           GetSimdFull(st.vals, st.simds, rec.ops[2], V(I)))

SimdCmpInst(st, I) ==
    LET rec == st.vals[I]
        Cast(sx) == Done(AddShadow(Emit(sx.st, I, I3("bitcast", Ty("i64", 4), <<sx.r>>)),
                                   V(I)), I)
        Widen(cmp, simdNum) ==
            Cast(Emit(cmp.st, I, I3("sext", Ty(IntOfBits(256 \div simdNum), simdNum),
                                    <<cmp.r>>)))
        Cmp(g0, g1) ==
            IF ~g0.ok \/ ~g1.ok \/ g0.r = None \/ g1.r = None THEN Fail(st)
            ELSE Widen(Emit(st, I, Inst(rec.op, Ty("i1", TypeOf(st.vals, g0.r).n),
                                        <<g0.r, g1.r>>, rec.pred, <<>>, None, <<>>)),
                       TypeOf(st.vals, g0.r).n)
    IN Cmp(GetSimdFull(st.vals, st.simds, rec.ops[1], V(I)),
           GetSimdFull(st.vals, st.simds, rec.ops[2], V(I)))

SimdSelectInst(st, I, nextI) ==
    LET rec == st.vals[I]
        Sel(tr, gt, gf) ==
            ReplaceWith(tr.st, I, nextI, I3("select", TypeOf(st.vals, gt.r), <<tr.r, gt.r, gf.r>>))
        Trunc(bc, numel, gt, gf) ==
            Sel(Emit(bc.st, I, I3("trunc", Ty("i1", numel), <<bc.r>>)), gt, gf)
        Cond(gc, gt, gf, numel) ==
            Trunc(Emit(st, I, I3("bitcast", Ty(IntOfBits(256 \div numel), numel), <<gc.r>>)),
                  numel, gt, gf)
        Shadows(gc, gt, gf) ==
            IF ~gc.ok \/ ~gt.ok \/ ~gf.ok \/ gc.r = None \/ gt.r = None \/ gf.r = None
            THEN Fail(st)
            ELSE Cond(gc, gt, gf, TypeOf(st.vals, gt.r).n)
    IN Shadows(GetSimdFull(st.vals, st.simds, rec.ops[1], V(I)),
               GetSimdFull(st.vals, st.simds, rec.ops[2], V(I)),
               GetSimdFull(st.vals, st.simds, rec.ops[3], V(I)))

\* getSimd of the operands of a GEP, pointer first
RECURSIVE GepShadows(_, _, _)
GepShadows(st, I, k) ==
    IF k > Len(st.vals[I].ops) THEN <<>>
    ELSE <<GetSimdFull(st.vals, st.simds, st.vals[I].ops[k], V(I))>> \o GepShadows(st, I, k + 1)

SimdGetElementPtrInst(st, I, nextI) ==
    LET Gep2(gs) ==
            IF \E k \in 1..Len(gs) : ~gs[k].ok \/ gs[k].r = None THEN Fail(st)
            ELSE ReplaceWith(st, I, nextI,
                     Inst("getelementptr", Ty("ptr", TypeOf(st.vals, gs[1].r).n),
                          [k \in 1..Len(gs) |-> gs[k].r], "", <<>>, None, st.vals[I].imm))
    IN Gep2(GepShadows(st, I, 1))

SimdCastInst(st, I, nextI) ==
    LET rec == st.vals[I]
        Create(sh, srcE, dt) ==
            IF ~CastIsValid(rec.op, srcE, dt.e) THEN Fail(sh.st)
            ELSE ReplaceWith(sh.st, I, nextI, I3(rec.op, dt, <<sh.r>>))
        Reshape(t1, srcTy, dt) ==
            Create(IF srcTy.n # dt.n
                   THEN Emit(t1.st, I, Inst("shufflevector", Ty(srcTy.e, dt.n), <<t1.r>>,
                                            "", <<>>, None, ShuffleMask(srcTy.n, dt.n)))
                   ELSE t1,
                   srcTy.e, dt)
        Source(t1, dt) == Reshape(t1, TypeOf(t1.st.vals, t1.r), dt)
        Cast(g, dt) ==
            IF ~g.ok \/ g.r = None \/ ~dt.ok THEN Fail(st)
            ELSE Source(IF TypeOf(st.vals, rec.ops[1]) = Ty("i1", 0)
                        THEN Emit(st, I, I3("trunc", Ty("i1", TypeOf(st.vals, g.r).n), <<g.r>>))
                        ELSE [st |-> st, r |-> g.r],
                        dt.ty)
    IN Cast(GetSimdFull(st.vals, st.simds, rec.ops[1], V(I)), GetSimdType(rec.ty))

SimdPHINode(st, I, nextI) ==
    LET rec == st.vals[I]
        simdTy == GetSimdType(rec.ty)
    IN IF IsStructTy(rec.ty) THEN st
       ELSE IF ~simdTy.ok THEN Fail(st)
       ELSE ReplaceWith([st EXCEPT !.phis = Append(@, I)], I, nextI,
                        I3("phi", simdTy.ty, <<>>))

SimdBranchInst(st, I) ==
    LET rec == st.vals[I]
        NewCond(nc) == SetOperand(nc.st, I, 0, nc.r)
        Test(res) ==
            NewCond(InsertBefore(res.st, I,
                       Inst("icmp", Ty("i1", 0), <<res.r, CInt("i32", 0)>>, "eq",
                            <<>>, None, <<>>)))
        Cond(g) ==
            IF ~g.ok \/ ~IsInstruction(st.vals, g.r) THEN Fail(st)
            ELSE Test(InsertBefore([st EXCEPT !.tocheck = Append(@, Obl(I, g.r, 0))], I,
                         Inst("call", Ty("i32", 0), <<g.r, GetSimdAllOnes>>, "", <<>>,
                              Fn("llvm.x86.avx.ptestz.256"), <<>>)))
    IN IF Len(rec.ops) = 0 THEN st
       ELSE IF IsConstant(rec.ops[1]) THEN st
       ELSE Cond(GetSimdFull(st.vals, st.simds, rec.ops[1], V(I)))

SimdBSwap(st, I) ==
    LET Back(bswapped, t) ==
            Done(AddShadow(Emit(bswapped.st, I, I3("bitcast", t, <<bswapped.r>>)), V(I)), I)
        Swap(tobswap, t) ==
            Back(InsertBefore(tobswap.st, I,
                    Inst("call", Ty("i256", 0), <<tobswap.r>>, "", <<>>,
                         Fn("llvm.bswap.i256"), <<>>)), t)
        Wide(g) ==
            IF ~g.ok \/ g.r = None THEN Fail(st)
            ELSE Swap(Emit(st, I, I3("bitcast", Ty("i256", 0), <<g.r>>)), TypeOf(st.vals, g.r))
    IN Wide(GetSimdFull(st.vals, st.simds, st.vals[I].ops[1], V(I)))

SimdCallInst(st, I, nextI) ==
    LET rec == st.vals[I]
        Result(st2) ==
            IF ~st2.ok THEN st2
            ELSE IF ~IsVoidTy(rec.ty) /\ ~IsStructTy(rec.ty) THEN SplatResult(st2, I, nextI)
            ELSE st2
        Callee(e, g) ==
            [e.st EXCEPT !.vals[I].callee = e.r,
                         !.tocheck = Append(@, Obl(I, DynCastInst(e.st.vals, g.r), 0 - 1))]
        Pointer(g) ==
            IF ~g.ok \/ g.r = None THEN Fail(st)
            ELSE Callee(Emit(st, I, ExtractRec(st.vals, g.r)), g)
    IN IF rec.callee.k = "fn" /\ rec.callee.name \in BSwapNames THEN SimdBSwap(st, I)
       ELSE IF IsIgnoredFunc(rec.callee) THEN st
       ELSE IF rec.callee.k = "asm"
       THEN (IF rec.callee.name = "" THEN st ELSE Fail(st))
       ELSE Result(ExtractOps(IF rec.callee.k = "fn" THEN st
                              ELSE Pointer(GetSimdFull(st.vals, st.simds, rec.callee, V(I))),
                              I, 0, Len(rec.ops)))

\* the body of simdInst(I), one arm per instruction kind; nextI is the
\* instruction after I when simdInst is entered
SimdDispatch(st, I, nextI) ==
    LET rec == st.vals[I]
        op == rec.op
    IN CASE op = "ret" ->
              IF Len(rec.ops) > 0 /\ ~IsStructTy(TypeOf(st.vals, rec.ops[1]))
              THEN ExtractSimdOpAndSubstitute(st, I, 0) ELSE st
         [] op = "switch" -> ExtractSimdOpAndSubstitute(st, I, 0)
         [] op = "br" -> SimdBranchInst(st, I)
         [] op = "indirectbr" -> ExtractSimdOpAndSubstitute(st, I, 0)
         [] op = "unreachable" -> st
         [] op \in BinaryOps -> SimdBinaryOperator(st, I, nextI)
         [] op \in CmpOps -> SimdCmpInst(st, I)
         [] op = "select" -> SimdSelectInst(st, I, nextI)
         [] op = "getelementptr" -> SimdGetElementPtrInst(st, I, nextI)
         [] op \in AllCastOps -> SimdCastInst(st, I, nextI)
         [] op = "phi" -> SimdPHINode(st, I, nextI)
         [] op \in {"alloca", "load", "va_arg"} ->
              ThenSplat(ExtractSimdOpAndSubstitute(st, I, 0), I, nextI)
         [] op = "store" -> ExtractOps(st, I, 0, 2)
         [] op = "cmpxchg" -> ThenSplat(ExtractOps(st, I, 0, 3), I, nextI)
         [] op = "atomicrmw" -> ThenSplat(ExtractOps(st, I, 0, 2), I, nextI)
         [] op = "extractvalue" -> SplatResult(st, I, nextI)
         [] op = "insertvalue" -> ExtractSimdOpAndSubstitute(st, I, 1)
         [] op = "call" -> SimdCallInst(st, I, nextI)
         [] op = "fence" -> st
         [] OTHER -> Fail(st)

VectorOps == {"extractelement", "insertelement", "shufflevector"}

SimdInstKeepsVectors(st, I, nextI) ==
    IF st.vals[I].op \in {"invoke", "landingpad", "resume"} THEN Fail(st)
    ELSE IF st.vals[I].op \in VectorOps THEN st
    ELSE SimdDispatch(st, I, nextI)

\* the head of simdInst: what the pass refuses to transform
SimdInst(st, I, nextI) ==
    IF st.vals[I].op \in {"invoke", "landingpad", "resume"} THEN Fail(st)
    ELSE IF st.vals[I].op \in VectorOps THEN Fail(st)
    ELSE SimdDispatch(st, I, nextI)

\* simdArgs: a shadow for every argument, built before firstI
RECURSIVE SimdArgsFrom(_, _, _)
SimdArgsFrom(st, firstI, a) ==
    IF a > Len(st.vals) \/ ~st.ok THEN st
    ELSE IF st.vals[a].op # "arg" THEN SimdArgsFrom(st, firstI, a + 1)
    ELSE SimdArgsFrom(AddShadow(CreateSimdValue(st, firstI, V(a)), V(a)), firstI, a + 1)

SimdArgs(st, firstI) == SimdArgsFrom(st, firstI, 1)

(***************************************************************************)
(* Phi rewiring.                                                           *)
(***************************************************************************)
\* a lookup that takes the last entry whatever the block is
IncomingValueLast(rec, b) == rec.ops[Len(rec.ops)]

\* PI->getIncomingValueForBlock(BB): the value of the first entry for BB
IncomingValueForBlock(rec, b) == rec.ops[CHOOSE k \in 1..Len(rec.succ) :
                                     rec.succ[k] = b /\ \A j \in 1..(k - 1) : rec.succ[j] # b]

AddIncoming(st, phi, v, b) ==
    [st EXCEPT !.vals[phi].ops = Append(@, v), !.vals[phi].succ = Append(@, b)]

RECURSIVE RewireOne(_, _, _, _)
RewireOne(st, PI, newPI, k) ==
    LET Bind(g, b) ==
            IF ~g.ok THEN Fail(st)
            ELSE IF g.r = None THEN RewireOne(st, PI, newPI, k + 1)
            ELSE RewireOne(AddIncoming(st, newPI, g.r, b), PI, newPI, k + 1)
    IN IF k > Len(st.vals[PI].succ) \/ ~st.ok THEN st
       ELSE Bind(GetSimdFull(st.vals, st.simds,
                             IncomingValueForBlock(st.vals[PI], st.vals[PI].succ[k]), V(PI)),
                 st.vals[PI].succ[k])

RECURSIVE RewireFrom(_, _)
RewireFrom(st, i) ==
    LET Wire(g, PI) ==
            IF ~g.ok \/ OpOf(st.vals, g.r) # "phi" THEN Fail(st)
            ELSE RewireFrom(Log(RewireOne(st, PI, g.r.id, 1), "rewired", PI), i + 1)
    IN IF i > Len(st.phis) \/ ~st.ok THEN st
       ELSE Wire(GetSimdFull(st.vals, st.simds, V(st.phis[i]), V(st.phis[i])), st.phis[i])

RewirePhis(st) == RewireFrom(st, 1)

(***************************************************************************)
(* Check injection.                                                        *)
(***************************************************************************)
IsTerminatorOp(op) ==
    op \in {"ret", "br", "switch", "indirectbr", "unreachable", "invoke", "resume"}

\* the phi nodes at the head of block b
LeadingPhis(st, b) ==
    {st.blocks[b][k] : k \in {j \in 1..Len(st.blocks[b]) :
                                 \A i \in 1..j : st.vals[st.blocks[b][i]].op = "phi"}}

SuccPhis(st, succs) == UNION {LeadingPhis(st, succs[k]) : k \in 1..Len(succs)}

\* SplitBlockAndInsertIfThen(cond, userI, Unreachable = true, weights 1:10000):
\* the head keeps what precedes userI and ends in br cond, then, tail; userI
\* moves to the new tail block; the new then block holds the scaffold
\* terminator.  The phi nodes of userI's successors name the tail instead of
\* the head (BasicBlock::splitBasicBlock).
SplitBlockAndInsertIfThen(st, cond, userI) ==
    LET head == BlockOf(st.blocks, userI)
        tail == Len(st.blocks) + 1
        then == Len(st.blocks) + 2
        k == PosIn(st.blocks[head], userI)
        brId == Len(st.vals) + 1
        termId == Len(st.vals) + 2
        headBr == Inst("br", NoTy, <<cond>>, "", <<then, tail>>, None, <<1, 10000>>)
        checkTerm == I3("unreachable", NoTy, <<>>)
        ps == SuccPhis(st, st.vals[userI].succ)
        vals1 == [i \in 1..Len(st.vals) |->
                    IF i \in ps
                    THEN [st.vals[i] EXCEPT !.succ = [j \in 1..Len(@) |->
                                                        IF @[j] = head THEN tail ELSE @[j]]]
                    ELSE st.vals[i]]
        hp == PosIn(st.layout, head)
    IN [st |-> [st EXCEPT !.vals = vals1 \o <<headBr, checkTerm>>,
                          !.blocks = [@ EXCEPT ![head] = SubSeq(@, 1, k - 1) \o <<brId>>]
                                     \o <<SubSeq(st.blocks[head], k, Len(st.blocks[head])),
                                          <<termId>>>>,
                          !.layout = SubSeq(@, 1, hp) \o <<then, tail>>
                                     \o SubSeq(@, hp + 1, Len(@))],
        checkTerm |-> termId, then |-> then, tail |-> tail]

\* an erase that leaves the instruction where it is
EraseNothing(st, I) == st

EraseFromParent(st, I) ==
    LET b == BlockOf(st.blocks, I)
    IN [st EXCEPT !.blocks[b] = SelectSeq(@, LAMBDA x : x # I),
                  !.vals[I] = I3("erased", NoTy, <<>>)]

HelperCall(nm, t, ops) == Inst("call", t, ops, "", <<>>, Fn(nm), <<>>)

\* every leading phi of block b gets an entry from block `to` with the value
\* it has for block `from`
RECURSIVE AddEdgesIn(_, _, _, _, _)
AddEdgesIn(st, b, k, from, to) ==
    IF ~st.ok \/ k > Len(st.blocks[b]) \/ st.vals[st.blocks[b][k]].op # "phi" THEN st
    ELSE LET PN == st.blocks[b][k]
         IN IF from \notin {st.vals[PN].succ[j] : j \in 1..Len(st.vals[PN].succ)}
            THEN Fail(st)
            ELSE AddEdgesIn(AddIncoming(st, PN, IncomingValueForBlock(st.vals[PN], from), to),
                            b, k + 1, from, to)

\* a loop that stops after the first successor
AddCheckEdgesFirst(st, succs, i, from, to) == AddEdgesIn(st, succs[1], 1, from, to)

\* the loop over the successors of the original branch
RECURSIVE AddCheckEdges(_, _, _, _, _)
AddCheckEdges(st, succs, i, from, to) ==
    IF i > Len(succs) THEN st
    ELSE AddCheckEdges(AddEdgesIn(st, succs[i], 1, from, to), succs, i + 1, from, to)

CheckBranch(st, userI, I) ==
    LET succs == st.vals[userI].succ
        Finish(edges, sp) == IF ~edges.ok THEN edges ELSE EraseFromParent(edges, sp.checkTerm)
        Edges(cloneBI, sp) ==
            Finish(AddCheckEdges(cloneBI.st, succs, 1, sp.tail, sp.then), sp)
        Clone(newcond, sp) ==
            Edges(InsertBefore(newcond.st, sp.checkTerm,
                               [st.vals[userI] EXCEPT !.ops = <<newcond.r>>]), sp)
        Retest(res, sp) ==
            Clone(InsertBefore(res.st, sp.checkTerm,
                      Inst("icmp", Ty("i1", 0), <<res.r, CInt("i32", 0)>>, "eq",
                           <<>>, None, <<>>)), sp)
        Corrected(correctedI, sp) ==
            Retest(InsertBefore(correctedI.st, sp.checkTerm,
                       HelperCall("llvm.x86.avx.ptestz.256", Ty("i32", 0),
                                  <<correctedI.r, GetSimdAllOnes>>)), sp)
        Then(sp) ==
            Corrected(InsertBefore(sp.st, sp.checkTerm,
                          HelperCall("SIMDSWIFT_mask_i64", Ty("i64", 4), <<I>>)), sp)
        Split(checkcond) == Then(SplitBlockAndInsertIfThen(checkcond.st, checkcond.r, userI))
        Flag(check) ==
            Split(InsertBefore(check.st, userI,
                      Inst("icmp", Ty("i1", 0), <<check.r, CInt("i32", 1)>>, "eq",
                           <<>>, None, <<>>)))
    IN Flag(InsertBefore(st, userI,
               HelperCall("llvm.x86.avx.ptestnzc.256", Ty("i32", 0), <<I, GetSimdAllOnes>>)))

\* the majority-vote helper for a shadow with these lanes ("" when none)
CheckHelperFor(e) ==
    CASE e = "i64"    -> "SIMDSWIFT_check_i64"
      [] e = "i32"    -> "SIMDSWIFT_check_i32"
      [] e = "i16"    -> "SIMDSWIFT_check_i16"
      [] e = "i8"     -> "SIMDSWIFT_check_i8"
      [] e = "double" -> "SIMDSWIFT_check_double"
      [] e = "float"  -> "SIMDSWIFT_check_float"
      [] OTHER        -> ""

CheckNonBranch(st, userI, I, opIdx) ==
    LET t == TypeOf(st.vals, I)
        i64SimdTy == GetSimdType(Ty("i64", 0)).ty
        Subst(tr) == SetOperand(tr.st, userI, opIdx, tr.r)
        Narrow(newOp, opTy) ==
            IF PrimBits(TypeOf(newOp.st.vals, newOp.r)) > PrimBits(opTy)
            THEN Subst(Emit(newOp.st, userI, I3("trunc", opTy, <<newOp.r>>)))
            ELSE Subst(newOp)
        Replace(newOp) ==
            IF st.vals[userI].op = "call" /\ st.vals[userI].callee.k # "fn" /\ opIdx = 0 - 1
            THEN [newOp.st EXCEPT !.vals[userI].callee = newOp.r]
            ELSE Narrow(newOp, TypeOf(st.vals, st.vals[userI].ops[opIdx + 1]))
        Lane0(newVecOp) ==
            Replace(Emit(newVecOp.st, userI, ExtractRec(newVecOp.st.vals, newVecOp.r)))
        Back(corrected) == Emit(corrected.st, userI, I3("inttoptr", t, <<corrected.r>>))
        Vote(casted) ==
            Back(InsertBefore(casted.st, userI,
                              HelperCall("SIMDSWIFT_check_i64", i64SimdTy, <<casted.r>>)))
    IN IF t.e # "ptr" /\ CheckHelperFor(t.e) = "" THEN Fail(st)
       ELSE IF t.e = "ptr"
       THEN Lane0(Vote(Emit(st, userI, I3("ptrtoint", i64SimdTy, <<I>>))))
       ELSE Lane0(InsertBefore(st, userI, HelperCall(CheckHelperFor(t.e), t, <<I>>)))

\* a reading of the flags under which an empty command line already turns
\* the checks of loads and stores off
SkippedByFlagOrStore(fl, op) ==
    \/ op \in {"load", "store"} /\ fl \subseteq {"no-check-load", "no-check-store"}
    \/ "no-check-atomic" \in fl /\ op \in {"cmpxchg", "atomicrmw"}
    \/ "no-check-call" \in fl /\ op = "call"

\* a check injection that never checks the address of a load
SkippedByFlagOrLoad(fl, op) ==
    \/ op = "load"
    \/ "no-check-store" \in fl /\ op = "store"
    \/ "no-check-atomic" \in fl /\ op \in {"cmpxchg", "atomicrmw"}
    \/ "no-check-call" \in fl /\ op = "call"

\* whether the flags make insertChecks skip a non-branch obligation
SkippedByFlag(fl, op) ==
    \/ "no-check-load" \in fl /\ op = "load"
    \/ "no-check-store" \in fl /\ op = "store"
    \/ "no-check-atomic" \in fl /\ op \in {"cmpxchg", "atomicrmw"}
    \/ "no-check-call" \in fl /\ op = "call"

\* the loop of insertChecks from entry i of tocheck down to the first
RECURSIVE InsertChecksFrom(_, _, _)
InsertChecksFrom(st, fl, i) ==
    IF i = 0 \/ ~st.ok THEN st
    ELSE LET o == st.tocheck[i]
             op == st.vals[o.user].op
         IN IF op = "br"
            THEN IF "no-check-branch" \in fl THEN InsertChecksFrom(st, fl, i - 1)
                 ELSE InsertChecksFrom(Log(CheckBranch(st, o.user, o.src), "checked", o.user),
                                       fl, i - 1)
            ELSE IF o.src = None \/ SkippedByFlag(fl, op)
            THEN InsertChecksFrom(st, fl, i - 1)
            ELSE InsertChecksFrom(Log(CheckNonBranch(st, o.user, o.src, o.idx),
                                      "checked", o.user), fl, i - 1)

InsertChecks(st, fl) ==
    IF "no-check-all" \in fl THEN st ELSE InsertChecksFrom(st, fl, Len(st.tocheck))

(***************************************************************************)
(* Deletion of the originals.                                              *)
(***************************************************************************)
\* I->getNumUses(): operand slots of instructions of the function that hold I
NumUses(st, I) ==
    LET live == UNION {{st.blocks[b][k] : k \in 1..Len(st.blocks[b])} : b \in 1..Len(st.blocks)}
        slots(u) == {k \in 1..Len(st.vals[u].ops) : st.vals[u].ops[k] = V(I)}
    IN Cardinality(UNION {{<<u, k>> : k \in slots(u)} : u \in live})
       + Cardinality({u \in live : st.vals[u].callee = V(I)})

RECURSIVE EmptyPhis(_, _)
EmptyPhis(st, i) ==
    IF i > Len(st.phis) THEN st
    ELSE EmptyPhis(Log([st EXCEPT !.vals[st.phis[i]].ops = <<>>,
                                  !.vals[st.phis[i]].succ = <<>>], "emptied", st.phis[i]),
                   i + 1)

\* a loop over the originals in the order they were recorded
RECURSIVE EraseForwardFrom(_, _)
EraseForwardFrom(st, i) ==
    IF i > Len(st.origs) THEN st
    ELSE IF NumUses(st, st.origs[i]) > 0
    THEN EraseForwardFrom(Log(st, "kept", st.origs[i]), i + 1)
    ELSE EraseForwardFrom(Log(EraseFromParent(st, st.origs[i]), "erased", st.origs[i]), i + 1)

EraseOrigsForward(st, i) == EraseForwardFrom(st, 1)

\* the loop over origs from entry i down to the first
RECURSIVE EraseOrigs(_, _)
EraseOrigs(st, i) ==
    IF i = 0 THEN st
    ELSE LET I == st.origs[i]
         IN IF NumUses(st, I) > 0
            THEN EraseOrigs(Log(st, "kept", I), i - 1)
            ELSE EraseOrigs(Log(EraseFromParent(st, I), "erased", I), i - 1)

RemoveOriginalInsts(st) == EraseOrigs(EmptyPhis(st, 1), Len(st.origs))

(***************************************************************************)
(* The FP-only hardener (avxfloatswift.cpp): only float and double values  *)
(* get shadows, comparisons of them give <4 x i64> predicates, everything  *)
(* else passes through.                                                    *)
(***************************************************************************)
IsFPTy(t) == t = Ty("float", 0) \/ t = Ty("double", 0)

CreateSimdValueFP(st, anchor, v) ==
    LET t == TypeOf(st.vals, v)
    IN IF GetSimdNumFP(t) = 0 THEN [st |-> Fail(st), r |-> None]
       ELSE InsertBefore(st, anchor, I3("insertelement", Ty(t.e, GetSimdNumFP(t)), <<v>>))

SplatResultFP(st, I, nextI) == AddShadow(CreateSimdValueFP(st, nextI, V(I)), V(I))
ThenSplatFP(st, I, nextI) == IF ~st.ok THEN st ELSE SplatResultFP(st, I, nextI)

ExtractSimdOpAndSubstituteFP(st, I, idxOp) ==
    LET Subst(e) == SetOperand(e.st, I, idxOp, e.r)
        Extract(g) ==
            IF ~g.ok THEN Fail(st)
            ELSE IF g.r = None THEN st
            ELSE Subst(Emit([st EXCEPT !.tocheck =
                                   Append(@, Obl(I, DynCastInst(st.vals, g.r), idxOp))],
                            I, ExtractRec(st.vals, g.r)))
    IN Extract(GetSimdFP(st.vals, st.simds, st.vals[I].ops[idxOp + 1], V(I)))

RECURSIVE ExtractOpsFP(_, _, _, _)
ExtractOpsFP(st, I, i, n) ==
    IF i >= n \/ ~st.ok THEN st
    ELSE ExtractOpsFP(ExtractSimdOpAndSubstituteFP(st, I, i), I, i + 1, n)

SimdBranchInstFP(st, I) ==
    LET rec == st.vals[I]
        NewCond(nc) == SetOperand(nc.st, I, 0, nc.r)
        Test(res) ==
            NewCond(InsertBefore(res.st, I,
                       Inst("icmp", Ty("i1", 0), <<res.r, CInt("i32", 0)>>, "eq",
                            <<>>, None, <<>>)))
        PTest(avxcond) ==
            IF ~IsInstruction(avxcond.st.vals, avxcond.r) THEN Fail(st)
            ELSE Test(InsertBefore([avxcond.st EXCEPT !.tocheck = Append(@, Obl(I, avxcond.r, 0))],
                         I, Inst("call", Ty("i32", 0), <<avxcond.r, GetSimdAllOnes>>, "", <<>>,
                                 Fn("llvm.x86.avx.ptestz.256"), <<>>)))
        Cond(g) ==
            IF ~g.ok THEN Fail(st)
            ELSE IF g.r = None THEN st
            ELSE PTest(Emit(st, I, I3("bitcast", Ty("i64", 4), <<g.r>>)))
    IN IF Len(rec.ops) = 0 THEN st
       ELSE IF IsConstant(rec.ops[1]) THEN st
       ELSE Cond(GetSimdFP(st.vals, st.simds, rec.ops[1], V(I)))

SimdBinaryOperatorFP(st, I, nextI) ==
    LET rec == st.vals[I]
        \* simdOp && simdOp->getType()->getScalarType()->isIntegerTy(64)
        IsPredicate(g) == g.r # None /\ TypeOf(st.vals, g.r).e = "i64"
        Set(t, idx) == SetOperand(t.st, I, idx, t.r)
        Narrow(e, idx) == Set(Emit(e.st, I, I3("trunc", Ty("i1", 0), <<e.r>>)), idx)
        Scalar(s, g, idx) ==
            IF ~IsPredicate(g) THEN s ELSE Narrow(Emit(s, I, ExtractRec(s.vals, g.r)), idx)
        Bin(g0, g1) ==
            IF ~g0.ok \/ ~g1.ok THEN Fail(st)
            ELSE IF IsPredicate(g0) \/ IsPredicate(g1) THEN Scalar(Scalar(st, g0, 0), g1, 1)
            ELSE IF g0.r = None \/ g1.r = None THEN st
            ELSE ReplaceWith(st, I, nextI, I3(rec.op, TypeOf(st.vals, g0.r), <<g0.r, g1.r>>))
    IN Bin(GetSimdFP(st.vals, st.simds, rec.ops[1], V(I)),
           GetSimdFP(st.vals, st.simds, rec.ops[2], V(I)))

SimdFCmpInstFP(st, I) ==
    LET rec == st.vals[I]
        Cast(sx) == Done(AddShadow(Emit(sx.st, I, I3("bitcast", Ty("i64", 4), <<sx.r>>)),
                                   V(I)), I)
        Widen(cmp, simdNum) ==
            Cast(Emit(cmp.st, I, I3("sext", Ty(IntOfBits(256 \div simdNum), simdNum),
                                    <<cmp.r>>)))
        Cmp(g0, g1) ==
            IF ~g0.ok \/ ~g1.ok \/ g0.r = None \/ g1.r = None THEN Fail(st)
            ELSE Widen(Emit(st, I, Inst("fcmp", Ty("i1", TypeOf(st.vals, g0.r).n),
                                        <<g0.r, g1.r>>, rec.pred, <<>>, None, <<>>)),
                       TypeOf(st.vals, g0.r).n)
    IN Cmp(GetSimdFP(st.vals, st.simds, rec.ops[1], V(I)),
           GetSimdFP(st.vals, st.simds, rec.ops[2], V(I)))

SimdSelectInstFP(st, I, nextI) ==
    LET rec == st.vals[I]
        Sel(c, gt, gf) ==
            ReplaceWith(c.st, I, nextI, I3("select", TypeOf(st.vals, gt.r), <<c.r, gt.r, gf.r>>))
        Trunc(bc, numel, gt, gf) ==
            Sel(Emit(bc.st, I, I3("trunc", Ty("i1", numel), <<bc.r>>)), gt, gf)
        Cond(gc, gt, gf, numel) ==
            IF gc.r = None THEN Sel([st |-> st, r |-> rec.ops[1]], gt, gf)
            ELSE Trunc(Emit(st, I, I3("bitcast", Ty(IntOfBits(256 \div numel), numel),
                                      <<gc.r>>)),
                       numel, gt, gf)
        Shadows(gc, gt, gf) ==
            IF ~gc.ok \/ ~gt.ok \/ ~gf.ok THEN Fail(st)
            ELSE IF gt.r = None \/ gf.r = None THEN st
            ELSE Cond(gc, gt, gf, TypeOf(st.vals, gt.r).n)
    IN Shadows(GetSimdFP(st.vals, st.simds, rec.ops[1], V(I)),
               GetSimdFP(st.vals, st.simds, rec.ops[2], V(I)),
               GetSimdFP(st.vals, st.simds, rec.ops[3], V(I)))

\* fpext and fptrunc: the source shadow reshaped to the lane count of the
\* destination, then cast
SimdFPResize(st, I, nextI, mask) ==
    LET rec == st.vals[I]
        n == GetSimdNumFP(rec.ty)
        Create(sh) == ReplaceWith(sh.st, I, nextI, I3(rec.op, Ty(rec.ty.e, n), <<sh.r>>))
        Reshape(g) ==
            IF ~g.ok \/ g.r = None \/ n = 0 THEN Fail(st)
            ELSE Create(Emit(st, I, Inst("shufflevector",
                                         Ty(TypeOf(st.vals, g.r).e, Len(mask)), <<g.r>>,
                                         "", <<>>, None, mask)))
    IN Reshape(GetSimdFP(st.vals, st.simds, rec.ops[1], V(I)))

SimdCastInstFP(st, I, nextI) ==
    LET rec == st.vals[I]
        op == rec.op
    IN CASE op \in {"inttoptr", "ptrtoint", "sext", "zext", "trunc"} -> st
         [] op = "bitcast" ->
              IF IsFPTy(TypeOf(st.vals, rec.ops[1])) THEN ExtractSimdOpAndSubstituteFP(st, I, 0)
              ELSE IF IsFPTy(rec.ty) THEN SplatResultFP(st, I, nextI)
              ELSE st
         [] op = "fpext" -> SimdFPResize(st, I, nextI, <<0, 1, 2, 3>>)
         [] op = "fptrunc" -> SimdFPResize(st, I, nextI, [i \in 1..8 |-> (i - 1) % 4])
         [] op = "fptosi" -> ExtractSimdOpAndSubstituteFP(st, I, 0)
         [] op = "sitofp" -> SplatResultFP(st, I, nextI)

SimdPHINodeFP(st, I, nextI) ==
    LET rec == st.vals[I]
    IN IF GetSimdNumFP(rec.ty) = 0 THEN st
       ELSE ReplaceWith([st EXCEPT !.phis = Append(@, I)], I, nextI,
                        I3("phi", Ty(rec.ty.e, GetSimdNumFP(rec.ty)), <<>>))

SimdCallInstFP(st, I, nextI) ==
    LET rec == st.vals[I]
        Result(st2) ==
            IF ~st2.ok THEN st2
            ELSE IF IsFPTy(rec.ty) THEN SplatResultFP(st2, I, nextI)
            ELSE st2
    IN IF IsIgnoredFunc(rec.callee) THEN st
       ELSE IF rec.callee.k = "asm"
       THEN (IF rec.callee.name = "" THEN st ELSE Fail(st))
       ELSE Result(ExtractOpsFP(st, I, 0, Len(rec.ops)))

SimdDispatchFP(st, I, nextI) ==
    LET rec == st.vals[I]
        op == rec.op
    IN CASE op = "ret" ->
              IF Len(rec.ops) > 0 THEN ExtractSimdOpAndSubstituteFP(st, I, 0) ELSE st
         [] op \in {"switch", "indirectbr", "unreachable"} -> st
         [] op = "br" -> SimdBranchInstFP(st, I)
         [] op \in BinaryOps -> SimdBinaryOperatorFP(st, I, nextI)
         [] op = "icmp" -> st
         [] op = "fcmp" -> SimdFCmpInstFP(st, I)
         [] op = "select" -> SimdSelectInstFP(st, I, nextI)
         [] op = "getelementptr" -> st
         [] op \in AllCastOps -> SimdCastInstFP(st, I, nextI)
         [] op = "phi" -> SimdPHINodeFP(st, I, nextI)
         [] op = "alloca" -> st
         [] op = "load" -> IF IsFPTy(rec.ty) THEN SplatResultFP(st, I, nextI) ELSE st
         [] op = "store" -> ExtractSimdOpAndSubstituteFP(st, I, 0)
         [] op = "cmpxchg" -> Fail(st)
         [] op = "atomicrmw" ->
              IF IsFPTy(rec.ty)
              THEN ThenSplatFP(ExtractSimdOpAndSubstituteFP(st, I, 1), I, nextI)
              ELSE st
         [] op \in {"extractvalue", "insertvalue"} -> st
         [] op = "call" -> SimdCallInstFP(st, I, nextI)
         [] op \in {"va_arg", "fence"} -> st
         [] OTHER -> Fail(st)

\* a rewriter that lets a cmpxchg pass through
SimdInstFPKeepsCmpXchg(st, I, nextI) ==
    IF st.vals[I].op \in {"invoke", "landingpad", "resume"} THEN Fail(st)
    ELSE IF st.vals[I].op \in VectorOps THEN Fail(st)
    ELSE IF st.vals[I].op = "cmpxchg" THEN st
    ELSE SimdDispatchFP(st, I, nextI)

SimdInstFP(st, I, nextI) ==
    IF st.vals[I].op \in {"invoke", "landingpad", "resume"} THEN Fail(st)
    ELSE IF st.vals[I].op \in VectorOps THEN Fail(st)
    ELSE SimdDispatchFP(st, I, nextI)

\* simdArgs: a shadow for every float or double argument
RECURSIVE SimdArgsFromFP(_, _, _)
SimdArgsFromFP(st, firstI, a) ==
    IF a > Len(st.vals) \/ ~st.ok THEN st
    ELSE IF st.vals[a].op # "arg" \/ ~IsFPTy(st.vals[a].ty)
    THEN SimdArgsFromFP(st, firstI, a + 1)
    ELSE SimdArgsFromFP(AddShadow(CreateSimdValueFP(st, firstI, V(a)), V(a)), firstI, a + 1)

SimdArgsFP(st, firstI) == SimdArgsFromFP(st, firstI, 1)

RECURSIVE RewireOneFP(_, _, _, _)
RewireOneFP(st, PI, newPI, k) ==
    LET Bind(g, b) ==
            IF ~g.ok THEN Fail(st)
            ELSE IF g.r = None THEN RewireOneFP(st, PI, newPI, k + 1)
            ELSE RewireOneFP(AddIncoming(st, newPI, g.r, b), PI, newPI, k + 1)
    IN IF k > Len(st.vals[PI].succ) \/ ~st.ok THEN st
       ELSE Bind(GetSimdFP(st.vals, st.simds,
                           IncomingValueForBlock(st.vals[PI], st.vals[PI].succ[k]), V(PI)),
                 st.vals[PI].succ[k])

RECURSIVE RewireFromFP(_, _)
RewireFromFP(st, i) ==
    LET Wire(g, PI) ==
            IF ~g.ok \/ OpOf(st.vals, g.r) # "phi" THEN Fail(st)
            ELSE RewireFromFP(Log(RewireOneFP(st, PI, g.r.id, 1), "rewired", PI), i + 1)
    IN IF i > Len(st.phis) \/ ~st.ok THEN st
       ELSE Wire(GetSimdFP(st.vals, st.simds, V(st.phis[i]), V(st.phis[i])), st.phis[i])

RewirePhisFP(st) == RewireFromFP(st, 1)

CheckNonBranchFP(st, userI, I, opIdx) ==
    LET t == TypeOf(st.vals, I)
        Subst(e) == SetOperand(e.st, userI, opIdx, e.r)
        Lane0(newVecOp) ==
            Subst(Emit(newVecOp.st, userI, ExtractRec(newVecOp.st.vals, newVecOp.r)))
    IN IF t.e = "double"
       THEN Lane0(InsertBefore(st, userI, HelperCall("SIMDSWIFT_check_double", t, <<I>>)))
       ELSE IF t.e = "float"
       THEN Lane0(InsertBefore(st, userI, HelperCall("SIMDSWIFT_check_float", t, <<I>>)))
       ELSE Fail(st)

\* a check injection in which no-check-store also turns the call checks off
SkippedByFlagFPWide(fl, op) ==
    \/ "no-check-store" \in fl /\ op \in {"store", "call"}
    \/ "no-check-atomic" \in fl /\ op \in {"cmpxchg", "atomicrmw"}
    \/ "no-check-call" \in fl /\ op = "call"

SkippedByFlagFP(fl, op) ==
    \/ "no-check-store" \in fl /\ op = "store"
    \/ "no-check-atomic" \in fl /\ op \in {"cmpxchg", "atomicrmw"}
    \/ "no-check-call" \in fl /\ op = "call"

RECURSIVE InsertChecksFromFP(_, _, _)
InsertChecksFromFP(st, fl, i) ==
    IF i = 0 \/ ~st.ok THEN st
    ELSE LET o == st.tocheck[i]
             op == st.vals[o.user].op
         IN IF op = "br"
            THEN IF "no-check-branch" \in fl THEN InsertChecksFromFP(st, fl, i - 1)
                 ELSE InsertChecksFromFP(Log(CheckBranch(st, o.user, o.src), "checked", o.user),
                                         fl, i - 1)
            ELSE IF o.src = None \/ SkippedByFlagFP(fl, op)
            THEN InsertChecksFromFP(st, fl, i - 1)
            ELSE InsertChecksFromFP(Log(CheckNonBranchFP(st, o.user, o.src, o.idx),
                                        "checked", o.user), fl, i - 1)

InsertChecksFP(st, fl) ==
    IF "no-check-all" \in fl THEN st ELSE InsertChecksFromFP(st, fl, Len(st.tocheck))

(***************************************************************************)
(* The native-cost pass (slownative.cpp): it only places calls of dummy    *)
(* marker functions where the hardeners would extract, broadcast or test.  *)
(***************************************************************************)
DummyCall(st, anchor, nm) == InsertBefore(st, anchor, HelperCall(nm, NoTy, <<>>)).st

\* a dummy_extract before I for each of the operands 0 .. n-1 of I, from
\* operand i on, that is not a constant
RECURSIVE DummyExtracts(_, _, _, _)
DummyExtracts(st, I, i, n) ==
    IF i >= n THEN st
    ELSE DummyExtracts(IF IsConstant(st.vals[I].ops[i + 1]) THEN st
                       ELSE DummyCall(st, I, "SIMDSWIFT_dummy_extract"),
                       I, i + 1, n)

\* a pass that leaves the stores without markers
SimdInstNativeNoStore(st, I, nextI) ==
    IF st.vals[I].op = "br" /\ Len(st.vals[I].ops) > 0 /\ ~IsConstant(st.vals[I].ops[1])
    THEN DummyCall(st, I, "SIMDSWIFT_dummy_ptest")
    ELSE st

SimdInstNative(st, I, nextI) ==
    LET rec == st.vals[I]
        op == rec.op
    IN CASE op = "br" ->
              IF Len(rec.ops) = 0 THEN st
              ELSE IF IsConstant(rec.ops[1]) THEN st
              ELSE DummyCall(st, I, "SIMDSWIFT_dummy_ptest")
         [] op = "load" ->
              DummyCall(DummyExtracts(st, I, 0, 1), nextI, "SIMDSWIFT_dummy_broadcast")
         [] op = "store" ->
              DummyExtracts(DummyExtracts(st, I, 1, 2), I, 0, 1)
         [] op = "cmpxchg" ->
              DummyCall(DummyExtracts(st, I, 0, 3), nextI, "SIMDSWIFT_dummy_broadcast")
         [] op = "atomicrmw" ->
              DummyCall(DummyExtracts(st, I, 0, 2), nextI, "SIMDSWIFT_dummy_broadcast")
         [] OTHER -> st

\* slownative.cpp's isIgnoredFunc: no exception for the lifetime intrinsics
IsIgnoredFuncNative(F) == F.name \in PrefixedNames \cup IgnoredNames \cup LifetimeNames

(***************************************************************************)
(* Helper resolution at module initialisation.                             *)
(***************************************************************************)
\* the functions of the runtime library
Runtime == {"SIMDSWIFT_exit", "SIMDSWIFT_mask_i64", "SIMDSWIFT_check_double",
            "SIMDSWIFT_check_float", "SIMDSWIFT_check_i64", "SIMDSWIFT_check_i32",
            "SIMDSWIFT_check_i16", "SIMDSWIFT_check_i8", "SIMDSWIFT_dummy_extract",
            "SIMDSWIFT_dummy_broadcast", "SIMDSWIFT_dummy_ptest"}

\* the global Function* variables of a variant, by the name they look up
HelperNames(var) ==
    CASE var = "full" -> {"SIMDSWIFT_exit", "SIMDSWIFT_mask_i64", "SIMDSWIFT_check_double",
                          "SIMDSWIFT_check_float", "SIMDSWIFT_check_i64",
                          "SIMDSWIFT_check_i32", "SIMDSWIFT_check_i16", "SIMDSWIFT_check_i8"}
      [] var = "fp" -> {"SIMDSWIFT_exit", "SIMDSWIFT_mask_i64", "SIMDSWIFT_check_double",
                        "SIMDSWIFT_check_float"}
      [] var = "native" -> {"SIMDSWIFT_dummy_extract", "SIMDSWIFT_dummy_broadcast",
                            "SIMDSWIFT_dummy_ptest"}

\* M.getFunction(name): the function, or the null pointer
GetFunction(M, nm) == IF nm \in M THEN Fn(nm) ELSE None

\* a lookup that passes over the 8-bit vote
FindHelperFuncsButI8(var, M) ==
    [refs |-> [h \in HelperNames(var) |-> GetFunction(M, h)],
     ok |-> \A h \in HelperNames(var) \ {"SIMDSWIFT_check_i8"} : GetFunction(M, h) # None]

\* findHelperFuncs: every global gets what the lookup gives, then the assert
FindHelperFuncs(var, M) ==
    [refs |-> [h \in HelperNames(var) |-> GetFunction(M, h)],
     ok |-> \A h \in HelperNames(var) : GetFunction(M, h) # None]

(***************************************************************************)
(* Traversal order: depth-first over the dominator tree, children in the   *)
(* order the tree got them (depth-first numbering of the control flow).    *)
(***************************************************************************)
Successors(st, b) ==
    LET t == st.vals[st.blocks[b][Len(st.blocks[b])]]
    IN IF t.op \in {"br", "switch", "indirectbr", "invoke"} THEN t.succ ELSE <<>>

InSeq(x, seq) == \E k \in 1..Len(seq) : seq[k] = x

\* depth-first preorder of the control-flow graph
RECURSIVE DfsVisit(_, _, _)
RECURSIVE DfsSuccs(_, _, _, _)
DfsVisit(st, b, seen) ==
    IF InSeq(b, seen) THEN seen ELSE DfsSuccs(st, Successors(st, b), 1, Append(seen, b))
DfsSuccs(st, succs, k, seen) ==
    IF k > Len(succs) THEN seen ELSE DfsSuccs(st, succs, k + 1, DfsVisit(st, succs[k], seen))

EntryBlock(st) == st.layout[1]

\* blocks reachable from the entry on a path that avoids block d
RECURSIVE ReachAvoiding(_, _, _)
ReachAvoiding(st, d, S) ==
    LET nxt == S \cup {c \in 1..Len(st.blocks) :
                         c # d /\ \E b \in S : InSeq(c, Successors(st, b))}
    IN IF nxt = S THEN S ELSE ReachAvoiding(st, d, nxt)

Reachable(st) == ReachAvoiding(st, 0, {EntryBlock(st)})

Dominates(st, d, b) ==
    /\ b \in Reachable(st)
    /\ \/ d = b
       \/ d = EntryBlock(st)
       \/ b \notin ReachAvoiding(st, d, {EntryBlock(st)})

IDom(st, b) ==
    LET sd == {d \in Reachable(st) : d # b /\ Dominates(st, d, b)}
    IN CHOOSE d \in sd : \A e \in sd : Dominates(st, e, d)

RECURSIVE DomPre(_, _, _)
RECURSIVE DomPreAll(_, _, _)
DomPre(st, d, cfg) ==
    <<d>> \o DomPreAll(st, SelectSeq(cfg, LAMBDA c : c # EntryBlock(st) /\ IDom(st, c) = d), cfg)
DomPreAll(st, cs, cfg) ==
    IF cs = <<>> THEN <<>> ELSE DomPre(st, Head(cs), cfg) \o DomPreAll(st, Tail(cs), cfg)

\* a traversal that takes the blocks of the dominator tree as the function
\* lists them
DomOrderAsListed(st) == SelectSeq(st.layout, LAMBDA b : b \in Reachable(st))

\* the blocks df_begin(DT.getRootNode()) .. df_end visits, in order
DomOrder(st) == DomPre(st, EntryBlock(st), DfsVisit(st, EntryBlock(st), <<>>))

\* the blocks the second loop visits: function order, not visited before
RestOrder(st, seen) == SelectSeq(st.layout, LAMBDA b : b \notin seen)

(***************************************************************************)
(* Input functions.  A function is its name, its value table (arguments    *)
(* first, then the instructions block by block) and its blocks.            *)
(***************************************************************************)
T(e) == Ty(e, 0)
Br(b) == Inst("br", NoTy, <<>>, "", <<b>>, None, <<>>)
CondBr(c, t, f) == Inst("br", NoTy, <<c>>, "", <<t, f>>, None, <<>>)
Store(v, p) == I3("store", NoTy, <<v, p>>)
Load(e, p) == I3("load", T(e), <<p>>)
Ret == I3("ret", NoTy, <<>>)
ICmp(pred, a, b) == Inst("icmp", T("i1"), <<a, b>>, pred, <<>>, None, <<>>)
Phi(e, vs, bs) == Inst("phi", T(e), vs, "", bs, None, <<>>)
Call(t, callee, ops) == Inst("call", t, ops, "", <<>>, callee, <<>>)
Gep(p, idx, size) == Inst("getelementptr", T("ptr"), <<p, idx>>, "", <<>>, None, <<size>>)
\* the address of a global variable: a constant
Global == C(T("ptr"), BytesOf(128, 8))

RECURSIVE LenSum(_, _)
LenSum(bbs, b) == IF b = 0 THEN 0 ELSE Len(bbs[b]) + LenSum(bbs, b - 1)

Function(name, argTys, bbs) ==
    [name |-> name,
     vals |-> [i \in 1..Len(argTys) |-> Arg(T(argTys[i]))] \o Flatten(bbs),
     blocks |-> [b \in 1..Len(bbs) |->
                   [k \in 1..Len(bbs[b]) |-> Len(argTys) + LenSum(bbs, b - 1) + k]]]

\* x op y stored through a pointer
FArith(opc, e) ==
    Function("arith", <<e, e, "ptr">>,
             <<<<I3(opc, T(e), <<V(1), V(2)>>), Store(V(4), V(3)), Ret>>>>)

\* a diamond: compare, branch, store on both sides, merge with a phi
FCmpBr(e) ==
    Function("cmpbr", <<e, e, "ptr">>,
             << <<ICmp("eq", V(1), V(2)), CondBr(V(4), 2, 3)>>,
                <<Store(CInt("i32", 1), V(3)), Br(4)>>,
                <<Store(CInt("i32", 0), V(3)), Br(4)>>,
                <<Phi(e, <<V(1), V(2)>>, <<2, 3>>), Store(V(10), V(3)), Ret>> >>)

\* a select on an i1 argument
FSelect(e) ==
    Function("select", <<"i1", e, e, "ptr">>,
             <<<<I3("select", T(e), <<V(1), V(2), V(3)>>), Store(V(5), V(4)), Ret>>>>)

\* a select on an i1 argument whose result decides a branch
FSelectBr(e) ==
    Function("selectbr", <<"i1", e, e, "ptr">>,
             << <<I3("select", T(e), <<V(1), V(2), V(3)>>), ICmp("eq", V(5), V(3)),
                  CondBr(V(6), 2, 3)>>,
                <<Store(CInt("i32", 1), V(4)), Ret>>,
                <<Store(CInt("i32", 0), V(4)), Ret>> >>)

\* a select on a comparison result
FCmpSelect(e) ==
    Function("cmpselect", <<e, e, "ptr">>,
             <<<<ICmp("ult", V(1), V(2)), I3("select", T(e), <<V(4), V(1), V(2)>>),
                 Store(V(5), V(3)), Ret>>>>)

FCast(opc, s, d) ==
    Function("cast", <<s, "ptr">>,
             <<<<I3(opc, T(d), <<V(1)>>), Store(V(3), V(2)), Ret>>>>)

\* a narrowing cast whose result decides a branch
FCastBr(s, d) ==
    Function("castbr", <<s, "ptr">>,
             << <<I3("trunc", T(d), <<V(1)>>), ICmp("eq", V(3), CInt(d, 0)),
                  CondBr(V(4), 2, 3)>>,
                <<Store(CInt("i32", 1), V(2)), Ret>>,
                <<Store(CInt("i32", 0), V(2)), Ret>> >>)

\* load, compute, store
FLoad(e) ==
    Function("load", <<"ptr", "ptr">>,
             <<<<Load(e, V(1)), I3("add", T(e), <<V(3), V(3)>>), Store(V(4), V(2)), Ret>>>>)

FLoadStore(e) ==
    Function("copy", <<"ptr", "ptr">>, <<<<Load(e, V(1)), Store(V(3), V(2)), Ret>>>>)

\* address arithmetic with an index argument / with a constant index
FGep(ie) ==
    Function("gep", <<"ptr", ie>>,
             <<<<Gep(V(1), V(2), 4), Load("i32", V(3)), Store(V(4), V(1)), Ret>>>>)

FGepConst(ie) ==
    Function("gepconst", <<"ptr", "i32">>,
             <<<<Gep(V(1), CInt(ie, 1), 4), Store(V(2), V(3)), Ret>>>>)

\* a loop with a phi that refers to a later instruction
FLoop ==
    Function("loop", <<"i32", "ptr">>,
             << <<Br(2)>>,
                <<Phi("i32", <<CInt("i32", 0), V(5)>>, <<1, 2>>),
                  I3("add", T("i32"), <<V(4), CInt("i32", 1)>>),
                  ICmp("ult", V(5), V(1)), CondBr(V(6), 2, 3)>>,
                <<Store(V(5), V(2)), Ret>> >>)

\* a block no path from the entry reaches
FDeadBlock ==
    Function("dead", <<"i32", "ptr">>,
             << <<Store(V(1), V(2)), Ret>>,
                <<I3("add", T("i32"), <<V(1), V(1)>>), Store(V(5), V(2)), Ret>> >>)

\* xor of a comparison result and an i1 argument decides a branch
FI1Xor ==
    Function("i1xor", <<"i1", "i32", "i32", "ptr">>,
             << <<ICmp("eq", V(2), V(3)), I3("xor", T("i1"), <<V(5), V(1)>>),
                  CondBr(V(6), 2, 3)>>,
                <<Store(CInt("i32", 1), V(4)), Ret>>,
                <<Store(CInt("i32", 0), V(4)), Ret>> >>)

\* a branch on an i1 argument / on a constant
FBrArg ==
    Function("brarg", <<"i1", "ptr">>,
             << <<CondBr(V(1), 2, 3)>>,
                <<Store(CInt("i32", 1), V(2)), Ret>>,
                <<Store(CInt("i32", 0), V(2)), Ret>> >>)

FBrConst ==
    Function("brconst", <<"ptr">>,
             << <<CondBr(CInt("i1", 1), 2, 3)>>,
                <<Store(CInt("i32", 1), V(1)), Ret>>,
                <<Store(CInt("i32", 0), V(1)), Ret>> >>)

\* nothing but constants
FConstStore(name) ==
    Function(name, <<>>, <<<<Store(CInt("i32", 5), Global), Ret>>>>)

\* an argument nothing uses
FUnusedArg ==
    Function("unused", <<"i32">>, <<<<Store(CInt("i32", 5), Global), Ret>>>>)

\* the loop, and a block no path reaches
FDeadLoop ==
    Function("deadloop", <<"i32", "ptr">>,
             << <<Br(2)>>,
                <<Phi("i32", <<CInt("i32", 0), V(5)>>, <<1, 2>>),
                  I3("add", T("i32"), <<V(4), CInt("i32", 1)>>),
                  ICmp("ult", V(5), V(1)), CondBr(V(6), 2, 3)>>,
                <<Store(V(5), V(2)), Ret>>,
                <<Store(V(1), V(2)), Ret>> >>)

\* a direct call; its result is stored
FCall ==
    Function("call", <<"i32", "ptr">>,
             <<<<Call(T("i32"), Fn("ext"), <<V(1)>>), Store(V(3), V(2)), Ret>>>>)

\* a call through a function pointer
FCallIndirect ==
    Function("callptr", <<"ptr", "i32", "ptr">>,
             <<<<Call(T("i32"), V(1), <<V(2)>>), Store(V(4), V(3)), Ret>>>>)

\* a call that passes the address of a function
FCallFnArg ==
    Function("callback", <<"i32">>,
             <<<<Call(NoTy, Fn("ext"), <<Fn("handler"), V(1)>>), Ret>>>>)

\* calls of ignored functions: without a result, with a result that is used
FCallIgnored(name) ==
    Function("ignored", <<"ptr", "i32">>,
             <<<<Call(NoTy, Fn(name), <<V(1), V(2)>>), Store(V(2), V(1)), Ret>>>>)

FCallIgnoredUsed(name, e) ==
    Function("ignoredused", <<e, "ptr">>,
             <<<<Call(T(e), Fn(name), <<V(1)>>), Store(V(3), V(2)), Ret>>>>)

FLifetime ==
    Function("lifetime", <<"ptr", "i32">>,
             <<<<Call(NoTy, Fn("llvm.lifetime.start"), <<CInt("i64", 4), V(1)>>),
                 Store(V(2), V(1)), Ret>>>>)

FBSwap ==
    Function("bswap", <<"i32", "ptr">>,
             <<<<Call(T("i32"), Fn("llvm.bswap.i32"), <<V(1)>>), Store(V(3), V(2)), Ret>>>>)

\* inline assembly: the empty string, a real one
FAsm(text) ==
    Function("asm", <<"i32", "ptr">>,
             <<<<Call(NoTy, Asm(text), <<>>), Store(V(1), V(2)), Ret>>>>)

\* a call that returns a struct, and a field of it
FCallStruct ==
    Function("callstruct", <<"ptr">>,
             <<<<Call(T("struct"), Fn("ext"), <<>>), I3("extractvalue", T("i32"), <<V(2)>>),
                 Store(V(3), V(1)), Ret>>>>)

FInsertValue ==
    Function("insertvalue", <<"i32">>,
             <<<<Call(T("struct"), Fn("ext"), <<>>),
                 I3("insertvalue", T("struct"), <<V(2), V(1)>>),
                 I3("ret", NoTy, <<V(3)>>)>>>>)

FAtomicRMW ==
    Function("atomicrmw", <<"ptr", "i32", "ptr">>,
             <<<<I3("atomicrmw", T("i32"), <<V(1), V(2)>>), Store(V(4), V(3)), Ret>>>>)

FCmpXchg ==
    Function("cmpxchg", <<"ptr", "i32", "i32">>,
             <<<<I3("cmpxchg", T("struct"), <<V(1), V(2), V(3)>>), Ret>>>>)

FSwitch ==
    Function("switch", <<"i32", "ptr">>,
             << <<Inst("switch", NoTy, <<V(1)>>, "", <<2, 3>>, None, <<0>>)>>,
                <<Store(CInt("i32", 1), V(2)), Ret>>,
                <<Store(CInt("i32", 0), V(2)), Ret>> >>)

FIndirectBr ==
    Function("indirectbr", <<"ptr", "ptr">>,
             << <<Inst("indirectbr", NoTy, <<V(1)>>, "", <<2>>, None, <<>>)>>,
                <<Store(CInt("i32", 1), V(2)), Ret>> >>)

FRet(e) == Function("ret", <<e>>, <<<<I3("ret", NoTy, <<V(1)>>)>>>>)

\* alloca, fence, va_arg and unreachable
FMisc ==
    Function("misc", <<"i32", "ptr">>,
             << <<I3("alloca", T("ptr"), <<CInt("i32", 1)>>), Store(V(1), V(3)),
                  I3("fence", NoTy, <<>>), I3("va_arg", T("i32"), <<V(2)>>),
                  Store(V(6), V(3)), I3("unreachable", NoTy, <<>>)>> >>)

\* exception handling
FInvoke ==
    Function("invoke", <<"i32", "ptr">>,
             << <<Store(V(1), V(2)),
                  Inst("invoke", T("i32"), <<V(1)>>, "", <<2, 3>>, Fn("ext"), <<>>)>>,
                <<Store(V(4), V(2)), Ret>>,
                <<I3("landingpad", T("struct"), <<>>), I3("resume", NoTy, <<V(7)>>)>> >>)

\* an instruction kind the rewriter has no rule for
FVector ==
    Function("vector", <<"i32", "ptr">>,
             << <<I3("insertelement", Ty("i32", 2), <<V(1)>>), Store(V(1), V(2)), Ret>> >>)

\* a conditional branch straight into the block of a phi, as second successor
FBrPhi(e) ==
    Function("brphi", <<e, e, "ptr">>,
             << <<ICmp("ult", V(1), V(2)), CondBr(V(4), 2, 3)>>,
                <<Store(CInt("i32", 1), V(3)), Br(3)>>,
                <<Phi(e, <<V(1), V(2)>>, <<1, 2>>), Store(V(8), V(3)), Ret>> >>)

\* a conditional branch whose two successors are one block
FBrSame ==
    Function("brsame", <<"i32", "i32", "ptr">>,
             << <<ICmp("eq", V(1), V(2)), CondBr(V(4), 2, 2)>>,
                <<Phi("i32", <<V(1), V(1)>>, <<1, 1>>), Store(V(6), V(3)), Ret>> >>)

FCmp(pred, a, b) == Inst("fcmp", T("i1"), <<a, b>>, pred, <<>>, None, <<>>)

\* the diamond on a comparison of floating-point values
FFCmpBr(e) ==
    Function("fcmpbr", <<e, e, "ptr">>,
             << <<FCmp("ult", V(1), V(2)), CondBr(V(4), 2, 3)>>,
                <<Store(V(1), V(3)), Br(4)>>,
                <<Store(V(2), V(3)), Br(4)>>,
                <<Phi(e, <<V(1), V(2)>>, <<2, 3>>), Store(V(10), V(3)), Ret>> >>)

\* the result of a floating-point comparison goes to memory
FFCmpStore ==
    Function("fcmpstore", <<"double", "double", "ptr">>,
             <<<<FCmp("ult", V(1), V(2)), Store(V(4), V(3)), Ret>>>>)

\* two floating-point comparisons joined by an or decide a branch
FFCmpOr ==
    Function("fcmpor", <<"double", "double", "ptr">>,
             << <<FCmp("ult", V(1), V(2)), FCmp("ugt", V(1), V(2)),
                  I3("or", T("i1"), <<V(4), V(5)>>), CondBr(V(6), 2, 3)>>,
                <<Store(V(1), V(3)), Ret>>,
                <<Store(V(2), V(3)), Ret>> >>)

\* a call that takes and returns floating-point values
FCallFP ==
    Function("callfp", <<"double", "i32", "ptr">>,
             <<<<Call(T("double"), Fn("ext"), <<V(1), V(2)>>), Store(V(4), V(3)), Ret>>>>)

\* an instruction of a kind simdInst has no arm for
FUnknown ==
    Function("unknown", <<"i32", "ptr">>,
             << <<Store(V(1), V(2)), I3("userop1", T("i32"), <<V(1)>>), Store(V(4), V(2)),
                  Ret>> >>)

\* an original that an ignored call keeps in use
FKept ==
    Function("kept", <<"ptr", "i32">>,
             << <<Gep(V(1), V(2), 4), I3("add", T("i32"), <<V(2), V(2)>>),
                  Call(NoTy, Fn("llvm.memset"), <<V(3), V(2)>>), Store(V(4), V(1)), Ret>> >>)

\* a floating-point comparison decides a branch straight into the block of
\* an integer phi
FFCmpBrPhi ==
    Function("fcmpbrphi", <<"double", "double", "ptr", "i32">>,
             << <<FCmp("ult", V(1), V(2)), CondBr(V(5), 2, 3)>>,
                <<Store(V(4), V(3)), Br(3)>>,
                <<Phi("i32", <<V(4), CInt("i32", 0)>>, <<1, 2>>), Store(V(9), V(3)), Ret>> >>)

\* a phi that a call the pass ignores uses
FKeptPhi ==
    Function("keptphi", <<"i32", "i32", "ptr">>,
             << <<ICmp("ult", V(1), V(2)), CondBr(V(4), 2, 3)>>,
                <<Store(CInt("i32", 1), V(3)), Br(3)>>,
                <<Phi("i32", <<V(1), V(2)>>, <<1, 2>>),
                  Call(NoTy, Fn("llvm.memset"), <<V(3), V(8)>>), Ret>> >>)

\* a block (5) that only a child (2) of the entry reaches, a sibling (4) that
\* the function lists before it, and two blocks (3, 6) nothing reaches
FNested ==
    Function("nested", <<"i32", "i32", "ptr">>,
             << <<ICmp("eq", V(1), V(2)), CondBr(V(4), 2, 4)>>,
                <<Store(V(1), V(3)), Br(5)>>,
                <<Store(CInt("i32", 3), V(3)), Ret>>,
                <<Store(V(2), V(3)), Ret>>,
                <<Store(CInt("i32", 5), V(3)), Ret>>,
                <<Store(CInt("i32", 6), V(3)), Br(3)>> >>)

IntTys == <<"i8", "i16", "i32", "i64">>
DataTys == IntTys \o <<"ptr", "float", "double">>

CastCases == << <<"zext", "i8", "i32">>, <<"zext", "i32", "i64">>, <<"sext", "i16", "i64">>,
                <<"trunc", "i64", "i32">>, <<"trunc", "i64", "i8">>, <<"trunc", "i32", "i16">>,
                <<"zext", "i1", "i32">>, <<"trunc", "i32", "i1">>, <<"ptrtoint", "ptr", "i64">>,
                <<"inttoptr", "i64", "ptr">>, <<"bitcast", "double", "i64">> >>

Programs ==
    [k \in 1..4 |-> FArith("add", IntTys[k])] \o [k \in 1..4 |-> FArith("xor", IntTys[k])]
    \o <<FArith("fadd", "double"), FArith("fmul", "float")>>
    \o [k \in 1..5 |-> FCmpBr(DataTys[k])]
    \o [k \in 1..7 |-> FSelect(DataTys[k])]
    \o [k \in 1..4 |-> FSelectBr(IntTys[k])]
    \o [k \in 1..4 |-> FCmpSelect(IntTys[k])]
    \o [k \in 1..Len(CastCases) |-> FCast(CastCases[k][1], CastCases[k][2], CastCases[k][3])]
    \o <<FCastBr("i64", "i8"), FCastBr("i64", "i32"), FCastBr("i32", "i16")>>
    \o [k \in 1..4 |-> FLoad(IntTys[k])]
    \o <<FLoadStore("double"), FLoadStore("ptr"), FLoadStore("i1")>>
    \o <<FGep("i64"), FGep("i32"), FGepConst("i64"), FGepConst("i32")>>
    \o <<FLoop, FDeadBlock, FDeadLoop, FI1Xor, FBrArg, FBrConst, FConstStore("const"),
         FConstStore("tx_start"), FUnusedArg>>
    \o <<FCall, FCallIndirect, FCallFnArg, FCallIgnored("llvm.memset"),
         FCallIgnored("tx_increment"), FCallIgnoredUsed("llvm.ctpop.i32", "i32"),
         FCallIgnoredUsed("llvm.fabs.f64", "double"), FLifetime, FBSwap, FAsm(""),
         FAsm("nop"), FCallStruct, FInsertValue>>
    \o <<FAtomicRMW, FCmpXchg, FSwitch, FIndirectBr, FRet("i32"), FRet("struct"),
         FMisc, FInvoke, FVector>>
    \o <<FBrPhi("i32"), FBrSame, FArith("add", "i128")>>
    \o <<FFCmpBr("double"), FFCmpBr("float"), FFCmpStore, FFCmpOr, FCallFP, FRet("double"),
         FCast("fpext", "float", "double"), FCast("fptrunc", "double", "float"),
         FCast("sitofp", "i32", "double"), FCast("fptosi", "double", "i32"), FUnknown,
         FKept, FFCmpBrPhi, FNested, FKeptPhi>>

(***************************************************************************)
(* SwiftPass::runOnFunction, one action per step of it.                    *)
(***************************************************************************)
MaxRuns == 2

FlagNames == {"no-check-all", "no-check-branch", "no-check-load", "no-check-store",
              "no-check-atomic", "no-check-call"}
\* the command lines of the model: no option, or one of them
FlagSets == {{}} \cup {{f} : f \in FlagNames}

EmptyMap == [x \in {} |-> None]
\* no shadow-map call was made yet
NoCall == [call |-> "none", v |-> None, s |-> None, ok |-> TRUE, r |-> None]
NoPos == [b |-> 0, i |-> 0]
\* the function was not run yet
NoExec == [input |-> <<>>, site |-> 0, lane |-> 0, pick |-> 0, hit |-> FALSE,
           loose |-> FALSE, orig |-> <<>>, hard |-> <<>>, faulty |-> <<>>, guards |-> <<>>,
           cmps |-> {}, oenv |-> <<>>, henv |-> <<>>, fenv |-> <<>>]

\* the transformer and the function, as the operators above take them
StOf ==
    [vals |-> vals, blocks |-> blocks, layout |-> layout, simds |-> simds, origs |-> origs,
     phis |-> phis, tocheck |-> tocheck, log |-> trace, ok |-> TRUE]

Commit(st) ==
    /\ vals' = st.vals
    /\ blocks' = st.blocks
    /\ layout' = st.layout
    /\ simds' = st.simds
    /\ origs' = st.origs
    /\ phis' = st.phis
    /\ tocheck' = st.tocheck
    /\ trace' = st.log
    /\ aborted' = ~st.ok

\* the instruction after the next one
NextInstAfterOne(st, I) ==
    LET b == BlockOf(st.blocks, I)
        k == PosIn(st.blocks[b], I)
    IN IF k + 1 < Len(st.blocks[b]) THEN st.blocks[b][k + 2] ELSE 0

\* std::next(instIt): 0 stands for BB->end()
NextInst(st, I) ==
    LET b == BlockOf(st.blocks, I)
        k == PosIn(st.blocks[b], I)
    IN IF k < Len(st.blocks[b]) THEN st.blocks[b][k + 1] ELSE 0

PosAt(st, b) == [b |-> b, i |-> st.blocks[b][1]]

\* the code of the variant that runs
IsIgnoredFuncOf(var, F) ==
    IF var = "native" THEN IsIgnoredFuncNative(F) ELSE IsIgnoredFunc(F)

SimdArgsOf(var, st, firstI) ==
    IF var = "full" THEN SimdArgs(st, firstI) ELSE SimdArgsFP(st, firstI)

SimdInstOf(var, st, I, nextI) ==
    CASE var = "full"   -> SimdInst(st, I, nextI)
      [] var = "fp"     -> SimdInstFP(st, I, nextI)
      [] var = "native" -> SimdInstNative(st, I, nextI)

RewirePhisOf(var, st) == IF var = "full" THEN RewirePhis(st) ELSE RewirePhisFP(st)

InsertChecksOf(var, st, fl) ==
    IF var = "full" THEN InsertChecks(st, fl) ELSE InsertChecksFP(st, fl)

\* the head of runOnFunction: an ignored function is left alone; otherwise a
\* new transformer is made and the traversal starts at the root
StartRun ==
    /\ ~aborted
    /\ run' = run + 1
    /\ UNCHANGED <<variant, linked, helpers, flags, prog, ret, exec>>
    /\ IF IsIgnoredFuncOf(variant, Fn(Programs[prog].name))
       THEN /\ pc' = "done"
            /\ UNCHANGED <<vals, blocks, layout, simds, origs, phis, tocheck, todo, cur,
                           visited, shadowedArgs, aborted, trace>>
       ELSE LET st == [StOf EXCEPT !.simds = EmptyMap, !.origs = <<>>, !.phis = <<>>,
                                   !.tocheck = <<>>]
                order == DomOrder(st)
            IN /\ Commit([st EXCEPT !.log = Append(@, Ev("start", Len(st.vals), 0))])
               /\ pc' = "dom"
               /\ cur' = PosAt(st, Head(order))
               /\ todo' = Tail(order)
               /\ visited' = {}
               /\ shadowedArgs' = FALSE

BeginRun == pc = "idle" /\ StartRun

\* the pass manager runs the pass once more on the function it produced
RunAgain == pc = "done" /\ run < MaxRuns /\ StartRun

\* one iteration of the inner loop of a traversal loop
RewriteStep(inDom) ==
    LET I == cur.i
        nextI == NextInst(StOf, I)
        seen == IF inDom THEN visited \cup {cur.b} ELSE visited
        Advance(st1, rest) ==
            /\ Commit(st1)
            /\ IF ~st1.ok THEN UNCHANGED <<pc, cur, todo>>
               ELSE IF nextI # 0 THEN cur' = [cur EXCEPT !.i = nextI] /\ UNCHANGED <<pc, todo>>
               ELSE IF todo # <<>>
               THEN cur' = PosAt(st1, Head(todo)) /\ todo' = Tail(todo) /\ UNCHANGED pc
               ELSE IF rest # <<>>
               THEN pc' = "rest" /\ cur' = PosAt(st1, Head(rest)) /\ todo' = Tail(rest)
               ELSE /\ pc' = IF variant = "native" THEN "done" ELSE "rewire"
                    /\ cur' = NoPos
                    /\ todo' = <<>>
        Rest(st1) == Advance(st1, IF inDom THEN RestOrder(st1, seen) ELSE <<>>)
        Rewrite(st0) ==
            Rest(IF st0.ok THEN SimdInstOf(variant, Log(st0, "simdInst", I), I, nextI) ELSE st0)
        withArgs == inDom /\ variant # "native"
    IN /\ ~aborted
       /\ visited' = seen
       /\ shadowedArgs' = (shadowedArgs \/ withArgs)
       /\ UNCHANGED <<variant, linked, helpers, flags, prog, run, ret, exec>>
       /\ Rewrite(IF withArgs /\ ~shadowedArgs
                  THEN SimdArgsOf(variant, Log(StOf, "simdArgs", I), I)
                  ELSE StOf)

\* the loop over the dominator tree
RewriteDom == pc = "dom" /\ RewriteStep(TRUE)

\* the loop over the blocks the dominator tree does not cover
RewriteRest == pc = "rest" /\ RewriteStep(FALSE)

\* the three calls that end runOnFunction, in this order
NextPhaseSwapped(at) ==
    CASE at = "rewire" -> "delete"
      [] at = "delete" -> "checks"
      [] at = "checks" -> "done"

NextPhase(at) ==
    CASE at = "rewire" -> "checks"
      [] at = "checks" -> "delete"
      [] at = "delete" -> "done"

Phase(at, st) ==
    /\ pc = at
    /\ ~aborted
    /\ Commit(st)
    /\ pc' = IF st.ok THEN NextPhase(at) ELSE pc
    /\ UNCHANGED <<variant, linked, helpers, flags, prog, todo, cur, visited, shadowedArgs,
                   run, ret, exec>>

DoRewirePhis == Phase("rewire", RewirePhisOf(variant, Log(StOf, "rewirePhis", 0)))

DoInsertChecks ==
    Phase("checks", InsertChecksOf(variant, Log(StOf, "insertChecks", 0), flags))

DoRemoveOriginalInsts ==
    LET End(st) == Log(st, "done", 0)
    IN Phase("delete", End(RemoveOriginalInsts(Log(StOf, "removeOriginalInsts", 0))))

Init ==
    /\ variant = "full"
    /\ linked = Runtime
    /\ helpers = FindHelperFuncs("full", Runtime).refs
    /\ flags \in FlagSets
    /\ prog \in 1..Len(Programs)
    /\ vals = Programs[prog].vals
    /\ blocks = Programs[prog].blocks
    /\ layout = [b \in 1..Len(Programs[prog].blocks) |-> b]
    /\ simds = EmptyMap
    /\ origs = <<>>
    /\ phis = <<>>
    /\ tocheck = <<>>
    /\ pc = "idle"
    /\ todo = <<>>
    /\ cur = NoPos
    /\ visited = {}
    /\ shadowedArgs = FALSE
    /\ aborted = FALSE
    /\ trace = <<>>
    /\ run = 0
    /\ ret = NoCall
    /\ exec = NoExec

Next ==
    \/ BeginRun
    \/ RewriteDom
    \/ RewriteRest
    \/ DoRewirePhis
    \/ DoInsertChecks
    \/ DoRemoveOriginalInsts
    \/ RunAgain

Spec == Init /\ [][Next]_vars

(***************************************************************************)
(* A module from its load on: doInitialization of one of the three passes, *)
(* then runOnFunction on one function.                                     *)
(***************************************************************************)
Variants == {"full", "fp", "native"}

\* the options a variant declares
FlagNamesOf(var) ==
    CASE var = "full"   -> FlagNames
      [] var = "fp"     -> FlagNames \ {"no-check-load"}
      [] var = "native" -> {}

\* what the module was linked with: the runtime library, or the library
\* short of one function
LinkedSets == {Runtime} \cup {Runtime \ {h} : h \in Runtime}

NoHelpers == [h \in {} |-> None]

\* SwiftPass::doInitialization
DoInitialization ==
    LET Found(f) ==
            /\ helpers' = f.refs
            /\ aborted' = ~f.ok
            /\ pc' = IF f.ok THEN "idle" ELSE pc
    IN /\ pc = "init"
       /\ ~aborted
       /\ Found(FindHelperFuncs(variant, linked))
       /\ UNCHANGED <<variant, linked, flags, prog, vals, blocks, layout, simds, origs, phis,
                      tocheck, todo, cur, visited, shadowedArgs, trace, run, ret, exec>>

InitModule ==
    /\ variant \in Variants
    /\ linked \in LinkedSets
    /\ helpers = NoHelpers
    /\ flags \in {{}} \cup {{f} : f \in FlagNamesOf(variant)}
    /\ prog \in 1..Len(Programs)
    /\ vals = Programs[prog].vals
    /\ blocks = Programs[prog].blocks
    /\ layout = [b \in 1..Len(Programs[prog].blocks) |-> b]
    /\ simds = EmptyMap
    /\ origs = <<>>
    /\ phis = <<>>
    /\ tocheck = <<>>
    /\ pc = "init"
    /\ todo = <<>>
    /\ cur = NoPos
    /\ visited = {}
    /\ shadowedArgs = FALSE
    /\ aborted = FALSE
    /\ trace = <<>>
    /\ run = 0
    /\ ret = NoCall
    /\ exec = NoExec

NextModule ==
    \/ DoInitialization
    \/ BeginRun
    \/ RewriteDom
    \/ RewriteRest
    \/ DoRewirePhis
    \/ DoInsertChecks
    \/ DoRemoveOriginalInsts

SpecModule == InitModule /\ [][NextModule]_vars

(***************************************************************************)
(* The shadow map on its own: any sequence of add and getSimd calls, in    *)
(* either variant, over a fixed set of values.                             *)
(***************************************************************************)
NumKeys == 3

\* values of every kind getSimd tells apart
MapWorld ==
    <<Arg(T("i32")), Arg(T("double")), Arg(T("i1")), Arg(T("ptr")), Arg(T("float")),
      I3("insertelement", Ty("i32", 8), <<V(1)>>),
      I3("insertelement", Ty("double", 4), <<V(2)>>),
      I3("insertelement", Ty("i64", 4), <<V(3)>>),
      I3("insertelement", Ty("float", 8), <<V(5)>>),
      I3("insertelement", Ty("i32", 2), <<V(1)>>),
      Inst("invoke", T("i32"), <<>>, "", <<1, 1>>, Fn("ext"), <<>>),
      I3("landingpad", T("struct"), <<>>),
      Gep(V(4), V(1), 4),
      I3("add", T("i32"), <<V(1), V(1)>>)>>

\* what add is called with
MapKeys == {V(i) : i \in 1..NumKeys}
MapShadows == {V(6), V(7), V(8)}
\* what getSimd is asked for, and on behalf of which instruction
MapQueries ==
    {V(i) : i \in 1..Len(MapWorld)}
    \cup {None, CInt("i32", 5), CInt("i1", 1), CInt("i8", 7), C(T("double"), BytesOf(9, 8)),
          C(Ty("i32", 8), Rep(BytesOf(5, 4), 8)), Fn("ext"), BB(1), Asm(""), Md}
MapUsers == {V(13), V(14)}

InitMap ==
    /\ variant \in {"full", "fp"}
    /\ linked = Runtime
    /\ helpers = FindHelperFuncs(variant, Runtime).refs
    /\ flags = {}
    /\ prog = 0
    /\ vals = MapWorld
    /\ blocks = <<>>
    /\ layout = <<>>
    /\ simds = EmptyMap
    /\ origs = <<>>
    /\ phis = <<>>
    /\ tocheck = <<>>
    /\ pc = "map"
    /\ todo = <<>>
    /\ cur = NoPos
    /\ visited = {}
    /\ shadowedArgs = FALSE
    /\ aborted = FALSE
    /\ trace = <<>>
    /\ run = 0
    /\ ret = NoCall
    /\ exec = NoExec

MapFrame ==
    UNCHANGED <<variant, linked, helpers, flags, prog, vals, blocks, layout, origs, phis,
                tocheck, pc, todo, cur, visited, shadowedArgs, trace, run, exec>>

\* simds.add(v, s)
CallAdd ==
    \E v \in MapKeys, s \in MapShadows :
        LET Put(a) == /\ simds' = a.map
                      /\ aborted' = ~a.ok
                      /\ ret' = [call |-> "add", v |-> v, s |-> s, ok |-> a.ok, r |-> None]
        IN /\ pc = "map"
           /\ ~aborted
           /\ Put(MapAdd(simds, v, s))
           /\ MapFrame

\* simds.getSimd(v, I)
CallGetSimd ==
    \E v \in MapQueries, I \in MapUsers :
        LET Got(g) == /\ aborted' = ~g.ok
                      /\ ret' = [call |-> "getSimd", v |-> v, s |-> I, ok |-> g.ok, r |-> g.r]
        IN /\ pc = "map"
           /\ ~aborted
           /\ Got(GetSimd(variant, vals, simds, v, I))
           /\ UNCHANGED simds
           /\ MapFrame

NextMap == CallAdd \/ CallGetSimd

SpecMap == InitMap /\ [][NextMap]_vars

(***************************************************************************)
(* Properties of the shadow map (SpecMap).                                 *)
(***************************************************************************)
\* C5: add(v, s) succeeds exactly when v has no shadow yet and then binds v
\* to s; an add that fails leaves the map as it was; no call ever changes or
\* removes a mapping that exists.
C5_SingleAssignment ==
    [][/\ \A v \in DOMAIN simds : HasSimd(simds', v) /\ simds'[v] = simds[v]
       /\ ret'.call = "add" =>
             /\ ret'.ok <=> ~HasSimd(simds, ret'.v)
             /\ ~ret'.ok => simds' = simds
             /\ ret'.ok => HasSimd(simds', ret'.v) /\ simds'[ret'.v] = ret'.s]_vars

\* a second add for a value, with another shadow, was refused
C5_Witness ==
    /\ ret.call = "add"
    /\ ~ret.ok
    /\ aborted
    /\ HasSimd(simds, ret.v)
    /\ simds[ret.v] # ret.s

\* a vector whose lane count is the one of the table for its lanes
IsCanonicalVector(t) == IsVectorTy(t) /\ t.e # "i1" /\ t.n * Bits(t.e) = 256

\* C6: getSimd of a value whose type is already a shadow type returns the
\* value itself and does not fail, in both variants.
C6_ShadowTypeReturnsItself ==
    (ret.call = "getSimd" /\ IsCanonicalVector(TypeOf(vals, ret.v)))
        => (ret.ok /\ ret.r = ret.v)

\* C8: getSimd of a basic block, a function, inline asm, metadata, an invoke
\* or a landing pad returns none and does not fail, in both variants.
C8_OpaqueHasNoShadow ==
    (ret.call = "getSimd" /\ IsOpaqueKind(vals, ret.v)) => (ret.ok /\ ret.r = None)

(***************************************************************************)
(* Properties of the pass (Spec).                                          *)
(***************************************************************************)
\* the instructions the function holds
LiveInsts == UNION {{blocks[b][k] : k \in 1..Len(blocks[b])} : b \in 1..Len(blocks)}

\* an instruction of the input function (what the pass creates comes after)
IsInputInst(i) == i \in LiveInsts /\ i <= Len(Programs[prog].vals)

\* the pass ran once on a function it does not skip, and came to its end
HardenedOnce ==
    /\ pc = "done"
    /\ run = 1
    /\ ~aborted
    /\ ~IsIgnoredFunc(Fn(Programs[prog].name))

VoteNames == {"SIMDSWIFT_check_double", "SIMDSWIFT_check_float", "SIMDSWIFT_check_i64",
              "SIMDSWIFT_check_i32", "SIMDSWIFT_check_i16", "SIMDSWIFT_check_i8"}

IsCallOf(v, names) ==
    /\ OpOf(vals, v) = "call"
    /\ vals[v.id].callee.k = "fn"
    /\ vals[v.id].callee.name \in names

SkipOp(v, op) == IF OpOf(vals, v) = op THEN vals[v.id].ops[1] ELSE v

\* operand o of sink u is lane 0 of a majority vote made earlier in u's block
IsVotedBefore(o, u) ==
    LET x == SkipOp(o, "trunc")
        vote == IF OpOf(vals, x) = "extractelement"
                THEN SkipOp(vals[x.id].ops[1], "inttoptr") ELSE None
    IN /\ IsCallOf(vote, VoteNames)
       /\ BlockOf(blocks, vote.id) = BlockOf(blocks, u)
       /\ PosIn(blocks[BlockOf(blocks, u)], vote.id) < PosIn(blocks[BlockOf(blocks, u)], u)

IsCondBr(u) == vals[u].op = "br" /\ Len(vals[u].ops) = 1

\* the conditional branch u sits behind a guard that, when the lanes of the
\* shadow of its condition differ, enters a block that votes and branches anew
IsGuardedBranch(u) ==
    \E h \in 1..Len(blocks) :
        LET g == blocks[h][Len(blocks[h])]
        IN /\ IsCondBr(g)
           /\ vals[g].imm = <<1, 10000>>
           /\ vals[g].succ[2] = BlockOf(blocks, u)
           /\ blocks[BlockOf(blocks, u)] = <<u>>
           /\ \E k \in 1..Len(blocks[vals[g].succ[1]]) :
                 IsCallOf(V(blocks[vals[g].succ[1]][k]), {"SIMDSWIFT_mask_i64"})

\* the operands of a sink that the claim is about
SinkOperands(u) ==
    {vals[u].ops[k] : k \in 1..Len(vals[u].ops)}
        \cup (IF vals[u].op = "call" /\ vals[u].callee.k = "v" THEN {vals[u].callee} ELSE {})

SinkFlag(op) ==
    CASE op = "store" -> "no-check-store"
      [] op = "call"  -> "no-check-call"
      [] op = "br"    -> "no-check-branch"
      [] OTHER        -> "no-check-atomic"

Disabled(op) == "no-check-all" \in flags \/ SinkFlag(op) \in flags

\* the claim as it is written: every non-opaque operand of every sink
C3_Original ==
    HardenedOnce =>
        \A u \in {i \in LiveInsts : IsInputInst(i)} :
            /\ vals[u].op \in {"store", "call", "atomicrmw", "cmpxchg"} =>
                  \A o \in {x \in SinkOperands(u) : ~IsOpaqueKind(vals, x)} :
                      IsVotedBefore(o, u) \/ Disabled(vals[u].op)
            /\ IsCondBr(u) => IsGuardedBranch(u) \/ Disabled("br")

\* C3: after the full hardener came to its end on a function it does not
\* skip, every store, atomicrmw and call of a function that is not ignored
\* has a majority vote, placed before it, on each operand that is neither a
\* constant nor opaque (a called function pointer included), and every
\* conditional branch whose condition is not a constant is guarded by the
\* lane test with the voting block; an operand is left without its check
\* exactly when the flag of the sink's category, or no-check-all, is set.
C3_SinksChecked ==
    HardenedOnce =>
        \A u \in {i \in LiveInsts : IsInputInst(i)} :
            /\ (\/ vals[u].op \in {"store", "atomicrmw"}
                \/ vals[u].op = "call" /\ vals[u].callee.k # "asm"
                                       /\ ~IsIgnoredFunc(vals[u].callee)) =>
                  \A o \in {x \in SinkOperands(u) :
                               ~IsConstant(x) /\ ~IsOpaqueKind(vals, x)} :
                      IsVotedBefore(o, u) <=> ~Disabled(vals[u].op)
            /\ (IsCondBr(u) /\ ~IsConstant(vals[u].ops[1])) =>
                  (IsGuardedBranch(u) <=> ~Disabled("br"))

\* a store and a conditional branch of one function both got their check
C3_Witness ==
    /\ HardenedOnce
    /\ flags = {}
    /\ \E u \in LiveInsts :
          /\ IsInputInst(u)
          /\ vals[u].op = "store"
          /\ \E o \in SinkOperands(u) : IsVotedBefore(o, u)
    /\ \E u \in LiveInsts : IsInputInst(u) /\ IsCondBr(u) /\ IsGuardedBranch(u)

\* the vector constants that instructions of the function have as operands
SplatOperandsOf(u) ==
    {vals[u].ops[k] : k \in {j \in 1..Len(vals[u].ops) :
                               vals[u].ops[j].k = "c" /\ IsVectorTy(vals[u].ops[j].ty)}}

\* the claim as it is written: every shadow and every splat is canonical
C4_Original ==
    /\ \A v \in DOMAIN simds : IsCanonicalVector(TypeOf(vals, simds[v]))
    /\ \A u \in LiveInsts : \A o \in SplatOperandsOf(u) : IsCanonicalVector(o.ty)

\* a vector with the lane count getSimdNum has for its lanes: 256 bits in
\* all, or 4 lanes of an integer that is not 8, 16, 32 or 64 bits wide
IsTableVector(t) ==
    \/ IsCanonicalVector(t)
    \/ t.n = 4 /\ t.e \in IntKinds /\ Bits(t.e) \notin {1, 8, 16, 32, 64}

\* C4: in the full hardener every shadow in the shadow map (splats of
\* arguments and results, shadow instructions, shadow phi nodes) and every
\* constant splat has the lane count of the table for its lanes, lane count
\* times lane width being 256 for the types of the table and the lane count
\* being 4 for an integer of another width; the one exception is a constant
\* splat asked for on behalf of a GEP, which has 4 lanes whatever its lanes
\* are.
C4_CanonicalWidth ==
    /\ \A v \in DOMAIN simds : IsTableVector(TypeOf(vals, simds[v]))
    /\ \A u \in LiveInsts : \A o \in SplatOperandsOf(u) :
          IF vals[u].op = "getelementptr" THEN o.ty.n = 4 ELSE IsTableVector(o.ty)

\* a shadow GEP holds the 128-bit splat of an i32 index, next to shadows of
\* 8 and of 4 lanes in the map
C4_Witness ==
    /\ \E u \in LiveInsts : \E o \in SplatOperandsOf(u) :
          /\ vals[u].op = "getelementptr"
          /\ o.ty = Ty("i32", 4)
          /\ ~HasSimd(simds, V(u))
    /\ \E v \in DOMAIN simds : TypeOf(vals, simds[v]) = Ty("ptr", 4)

\* the number of values the function held when the current run started
ValuesAtStart ==
    LET starts == {j \in 1..Len(trace) : trace[j].e = "start"}
    IN IF starts = {} THEN Len(vals)
       ELSE trace[CHOOSE j \in starts : \A m \in starts : m <= j].i

HasVectorInst == \E u \in LiveInsts : vals[u].op \in VectorOps

InputFn ==
    [vals |-> Programs[prog].vals, blocks |-> Programs[prog].blocks,
     layout |-> [b \in 1..Len(Programs[prog].blocks) |-> b]]

\* the function holds only what simdInst has a case for
SupportedOnly ==
    \A i \in 1..Len(InputFn.vals) :
        /\ InputFn.vals[i].op \in
              {"arg", "ret", "switch", "br", "indirectbr", "unreachable", "select",
               "getelementptr", "phi", "alloca", "load", "va_arg", "store", "cmpxchg",
               "atomicrmw", "extractvalue", "insertvalue", "call", "fence"}
                  \cup BinaryOps \cup CmpOps \cup AllCastOps
        /\ InputFn.vals[i].callee.k = "asm" => InputFn.vals[i].callee.name = ""

OperandSet(rec) == {rec.ops[k] : k \in 1..Len(rec.ops)}

\* the values simdInst asks the shadow map for when it rewrites I
LookedUp(I) ==
    LET rec == vals[I]
    IN CASE rec.op = "ret" ->
              IF Len(rec.ops) > 0 /\ ~IsStructTy(TypeOf(vals, rec.ops[1]))
              THEN {rec.ops[1]} ELSE {}
         [] rec.op = "br" ->
              IF Len(rec.ops) = 1 /\ ~IsConstant(rec.ops[1]) THEN {rec.ops[1]} ELSE {}
         [] rec.op = "insertvalue" -> {rec.ops[2]}
         [] rec.op = "call" ->
              IF rec.callee.k = "fn" /\ rec.callee.name \in BSwapNames THEN {rec.ops[1]}
              ELSE IF IsIgnoredFunc(rec.callee) \/ rec.callee.k = "asm" THEN {}
              ELSE OperandSet(rec) \cup (IF rec.callee.k = "v" THEN {rec.callee} ELSE {})
         [] rec.op \in {"phi", "extractvalue", "fence", "unreachable", "arg"} -> {}
         [] OTHER -> OperandSet(rec)

Available(o) ==
    \/ IsConstant(o)
    \/ IsOpaqueKind(vals, o)
    \/ HasSimd(simds, o)
    \/ OpOf(vals, o) = "arg" /\ ~shadowedArgs

\* C9: on a function made only of supported instruction kinds, every operand
\* that is neither a constant nor opaque is in the shadow map when the
\* rewriter, and later the phi rewiring, looks it up, and the pass does not
\* stop at a lookup.
C9_ShadowAvailable ==
    (run = 1 /\ SupportedOnly) =>
        /\ (pc \in {"dom", "rest"} /\ ~aborted) => \A o \in LookedUp(cur.i) : Available(o)
        /\ (pc = "rewire" /\ ~aborted) =>
              \A k \in 1..Len(phis) : \A o \in OperandSet(vals[phis[k]]) : Available(o)

\* the position of an entry of the history in the order of runOnFunction
Rank(ev) ==
    CASE ev.e = "start" -> 0
      [] ev.e = "simdArgs" -> 1
      [] ev.e = "simdInst" -> IF ev.b \in Reachable(InputFn) THEN 1 ELSE 2
      [] ev.e \in {"rewirePhis", "rewired"} -> 3
      [] ev.e \in {"insertChecks", "checked"} -> 4
      [] ev.e \in {"removeOriginalInsts", "emptied", "erased", "kept"} -> 5
      [] OTHER -> 6

\* the history of the first run
FirstRunLen ==
    LET starts == {j \in 1..Len(trace) : trace[j].e = "start"}
        later == {j \in starts : \E m \in starts : m < j}
    IN IF later = {} THEN Len(trace)
       ELSE (CHOOSE j \in later : \A m \in later : j <= m) - 1

\* C10: within one run every rewriter call on a block of the dominator tree
\* comes before every rewriter call on another block, these before the phi
\* rewiring, that before the first check, the checks before the first
\* deletion; each of the three closing phases is entered once.
C10_PhaseOrder ==
    /\ \A j \in 1..(FirstRunLen - 1) : Rank(trace[j]) <= Rank(trace[j + 1])
    /\ \A e \in {"rewirePhis", "insertChecks", "removeOriginalInsts"} :
          Cardinality({j \in 1..FirstRunLen : trace[j].e = e}) <= 1

\* a run that rewrote blocks inside and outside the dominator tree, rewired a
\* phi, injected a check and deleted an original
C10_Witness ==
    /\ run = 1
    /\ pc = "done"
    /\ \A r \in 1..6 : \E j \in 1..Len(trace) : Rank(trace[j]) = r
    /\ \E j \in 1..Len(trace) : trace[j].e = "rewired"
    /\ \E j \in 1..Len(trace) : trace[j].e = "checked"
    /\ \E j \in 1..Len(trace) : trace[j].e = "erased"

\* s is the splat of constant o that the shadow map hands out
IsSplatOf(s, o) ==
    /\ s.k = "c"
    /\ s.ty = GetSimdType(o.ty).ty
    /\ \A i \in 1..s.ty.n :
          Lane(s.val, s.ty, i) = IF o.ty.e = "i1" THEN SExtLane(o.val, "i1", "i64") ELSE o.val

\* s is the shadow of value o
IsShadowOf(s, o) == IF o.k = "v" THEN HasSimd(simds, o) /\ simds[o] = s ELSE IsSplatOf(s, o)

\* C11: when phi rewiring has ended, the shadow of every recorded phi is a phi
\* with one entry per entry of the original, in the same order: the same
\* block, and as value the shadow of the value the original has for that block.
C11_PhisRewired ==
    (pc = "checks" /\ run = 1 /\ ~aborted) =>
        \A k \in 1..Len(phis) :
            /\ HasSimd(simds, V(phis[k]))
            /\ OpOf(vals, simds[V(phis[k])]) = "phi"
            /\ vals[simds[V(phis[k])].id].succ = vals[phis[k]].succ
            /\ Len(vals[simds[V(phis[k])].id].ops) = Len(vals[phis[k]].ops)
            /\ \A j \in 1..Len(vals[phis[k]].ops) :
                  IsShadowOf(vals[simds[V(phis[k])].id].ops[j],
                             IncomingValueForBlock(vals[phis[k]], vals[phis[k]].succ[j]))
            /\ \A j \in 1..Len(vals[phis[k]].ops) :
                  IsShadowOf(vals[simds[V(phis[k])].id].ops[j], vals[phis[k]].ops[j])

\* a rewired phi of a loop: one value is a constant, the other an instruction
\* that comes after the phi; and a rewired phi that joins two arguments
C11_Witness ==
    /\ pc = "checks"
    /\ run = 1
    /\ ~aborted
    /\ \E k \in 1..Len(phis) :
          /\ \E j \in 1..2 : vals[phis[k]].ops[j].k = "c"
          /\ \E j \in 1..2 : vals[phis[k]].ops[j].k = "v" /\ vals[phis[k]].ops[j].id > phis[k]
          /\ Len(vals[simds[V(phis[k])].id].ops) = 2

\* the function as it is now, as the traversal helpers take it
CurFn == [vals |-> vals, blocks |-> blocks, layout |-> layout]

\* how many times x is an element of seq
Count(seq, x) == Cardinality({j \in 1..Len(seq) : seq[j] = x})

\* the phi nodes of the function
LivePhis == {p \in LiveInsts : vals[p].op = "phi"}

\* phi p has as many entries for every block as there are edges from that
\* block into the block of p
OneEntryPerEdge(p) ==
    \A a \in 1..Len(blocks) :
        Count(vals[p].succ, a) = Count(Successors(CurFn, a), BlockOf(blocks, p))

\* the branches the check injector put at the end of a head block
GuardBranches == {g \in LiveInsts : IsCondBr(g) /\ vals[g].imm = <<1, 10000>>}

\* the terminator of block b
Terminator(b) == blocks[b][Len(blocks[b])]

\* C12: after check injection, for every injected branch check every phi
\* (original or shadow) of every successor of the checked branch has entries
\* from the block of the original branch and from the check block, with the
\* same value; and every phi of the function has one entry per control-flow
\* edge into its block (after deletion: every phi the pass left non-empty).
C12_CheckBlockEdges ==
    (run = 1 /\ ~aborted /\ pc \in {"delete", "done"}) =>
        /\ \A g \in GuardBranches : \A p \in LivePhis :
              (/\ InSeq(BlockOf(blocks, p), vals[Terminator(vals[g].succ[2])].succ)
               /\ (pc = "delete" \/ Len(vals[p].succ) > 0)) =>
                  /\ InSeq(vals[g].succ[1], vals[p].succ)
                  /\ InSeq(vals[g].succ[2], vals[p].succ)
                  /\ \A i, j \in 1..Len(vals[p].succ) :
                        (vals[p].succ[i] = vals[g].succ[1] /\ vals[p].succ[j] = vals[g].succ[2])
                            => vals[p].ops[i] = vals[p].ops[j]
        /\ \A p \in LivePhis : (pc = "delete" \/ Len(vals[p].succ) > 0) => OneEntryPerEdge(p)

\* a branch check whose checked branch has, as second successor, a block with
\* an original phi and its shadow: both have an entry from the check block
C12_Witness ==
    /\ run = 1
    /\ ~aborted
    /\ pc = "delete"
    /\ \E g \in GuardBranches : \E p, q \in LivePhis :
          /\ BlockOf(blocks, p) = vals[Terminator(vals[g].succ[2])].succ[2]
          /\ BlockOf(blocks, p) # vals[Terminator(vals[g].succ[2])].succ[1]
          /\ HasSimd(simds, V(p))
          /\ simds[V(p)] = V(q)
          /\ InSeq(vals[g].succ[1], vals[p].succ)
          /\ InSeq(vals[g].succ[1], vals[q].succ)
          /\ Len(vals[q].succ) = 3

\* the obligations of conditional branches that check injection works on
BranchObligations ==
    IF "no-check-all" \in flags \/ "no-check-branch" \in flags THEN {}
    ELSE {tocheck[i] : i \in {j \in 1..Len(tocheck) : vals[tocheck[j].user].op = "br"}}

\* v is `icmp eq (call name(x, all-ones)), k`, computed in block b
IsLaneTest(v, name, x, k, b) ==
    /\ OpOf(vals, v) = "icmp"
    /\ vals[v.id].pred = "eq"
    /\ vals[v.id].ops[2] = CInt("i32", k)
    /\ IsCallOf(vals[v.id].ops[1], {name})
    /\ vals[vals[v.id].ops[1].id].ops = <<x, GetSimdAllOnes>>
    /\ v.id \in LiveInsts
    /\ vals[v.id].ops[1].id \in LiveInsts
    /\ BlockOf(blocks, v.id) = b
    /\ BlockOf(blocks, vals[v.id].ops[1].id) = b

\* block c is the check block of branch u on predicate shadow x: it votes on
\* x, tests the vote and ends in the only terminator it has, a branch with
\* the successors of u
IsCheckBlock(c, u, x) ==
    LET cl == Terminator(c)
    IN /\ Cardinality({k \in 1..Len(blocks[c]) : IsTerminatorOp(vals[blocks[c][k]].op)}) = 1
       /\ cl # u
       /\ vals[cl].op = "br"
       /\ vals[cl].succ = vals[u].succ
       /\ vals[cl].imm = vals[u].imm
       /\ Len(vals[cl].ops) = 1
       /\ \E m \in 1..Len(blocks[c]) :
             /\ IsCallOf(V(blocks[c][m]), {"SIMDSWIFT_mask_i64"})
             /\ vals[blocks[c][m]].ops = <<x>>
             /\ IsLaneTest(vals[cl].ops[1], "llvm.x86.avx.ptestz.256", V(blocks[c][m]), 0, c)

\* C13: after check injection, for every checked conditional branch u with
\* predicate shadow x: u is alone in the fall-through block and has the
\* condition the rewriter gave it and the successors of the input; a head
\* block ends in a branch on `ptestnzc(x, all-ones) = 1` with weights 1 and
\* 10000 to the check block and to the fall-through block; the check block
\* ends in one branch, with the successors of u in their order, on the test of
\* the majority-corrected predicate; the pass leaves no scaffold terminator.
C13_SplitBlockShape ==
    (run = 1 /\ ~aborted /\ pc \in {"delete", "done"}) =>
        /\ \A o \in BranchObligations :
              /\ blocks[BlockOf(blocks, o.user)] = <<o.user>>
              /\ vals[o.user].succ = Programs[prog].vals[o.user].succ
              /\ Len(vals[o.user].ops) = 1
              /\ \E h \in 1..Len(blocks) :
                    /\ IsLaneTest(vals[o.user].ops[1], "llvm.x86.avx.ptestz.256", o.src, 0, h)
                    /\ Terminator(h) \in GuardBranches
                    /\ vals[Terminator(h)].succ[2] = BlockOf(blocks, o.user)
                    /\ Len(vals[Terminator(h)].succ) = 2
                    /\ IsLaneTest(vals[Terminator(h)].ops[1], "llvm.x86.avx.ptestnzc.256",
                                   o.src, 1, h)
                    /\ IsCheckBlock(vals[Terminator(h)].succ[1], o.user, o.src)
        /\ Cardinality(GuardBranches) = Cardinality(BranchObligations)
        /\ \A i \in LiveInsts : vals[i].op = "unreachable" => IsInputInst(i)

\* the checked branch at the end of a loop body: it is alone in its block,
\* behind a guard, next to a check block that ends in its clone
C13_Witness ==
    /\ run = 1
    /\ ~aborted
    /\ pc = "done"
    /\ \E o \in BranchObligations : \E g \in GuardBranches :
          /\ vals[g].succ[2] = BlockOf(blocks, o.user)
          /\ IsCheckBlock(vals[g].succ[1], o.user, o.src)
          /\ InSeq(BlockOf(blocks, g), vals[o.user].succ)

(***************************************************************************)
(* Running a function of the model: the meaning of the instructions the    *)
(* pass reads and writes.  A machine is [env, mem, obs, b, k, prev, fuel,  *)
(* halt, hit, loose]: the registers, the stores made so far, what an       *)
(* observer sees (the stores and the targets of the branches of the        *)
(* program), the position, the block left last, the steps left, whether    *)
(* the fault was injected, and whether a vote was taken on lanes of which  *)
(* more than one disagrees.  guards lists, for every branch of a head      *)
(* block that was executed, the predicate shadow it tested and whether it  *)
(* entered the check block.                                                *)
(***************************************************************************)
MaxInput == 1
MaxFaultLane == 1
MaxSteps == 200

\* the input functions that are run: no call of an unknown function, no
\* floating-point arithmetic (comparisons only), the pass comes to its end
\* on them
ExecPrograms == {1, 5, 11, 12, 13, 14, 15, 16, 23, 27, 35, 42, 45, 52, 54, 56, 57, 59, 60,
                 61, 62, 90, 91}

\* the hardeners that are run on an input function: the FP-only one on the
\* functions that compare floating-point values
ExecVariants(p) == IF p \in {90, 91} THEN {"full", "fp"} ELSE {"full"}

\* the runtime's majority vote (its source is not part of the repository):
\* when all lanes but at most one agree, every lane of the result has the
\* value they agree on; otherwise the result is one of the lanes, repeated
Agreed(x, t) ==
    {i \in 1..NLanes(t) :
        Cardinality({j \in 1..NLanes(t) : Lane(x, t, j) = Lane(x, t, i)}) >= NLanes(t) - 1}

Majority(x, t, pick) ==
    IF Agreed(x, t) # {} THEN EvalSplat(Lane(x, t, CHOOSE i \in Agreed(x, t) : TRUE), NLanes(t))
    ELSE EvalSplat(Lane(x, t, IF pick = 0 THEN 1 ELSE NLanes(t)), NLanes(t))

\* a transient fault: bit 0 of one lane flips
Corrupt(x, t, lane) ==
    [i \in 1..Len(x) |->
        IF i = lane * W(t.e) + 1 THEN (IF x[i] % 2 = 0 THEN x[i] + 1 ELSE x[i] - 1)
        ELSE x[i]]

OperandVal(m, o) == IF o.k = "v" THEN m.env[o.id] ELSE o.val

\* a load: what was stored last at the address, or the initial contents
RECURSIVE MemRead(_, _, _)
MemRead(mem, a, w) ==
    IF mem = <<>> THEN BytesOf(2, w)
    ELSE IF mem[Len(mem)].a = a /\ Len(mem[Len(mem)].v) = w THEN mem[Len(mem)].v
    ELSE MemRead(SubSeq(mem, 1, Len(mem) - 1), a, w)

VoteCallees == {"SIMDSWIFT_mask_i64", "SIMDSWIFT_check_i64", "SIMDSWIFT_check_i32",
                "SIMDSWIFT_check_i16", "SIMDSWIFT_check_i8", "SIMDSWIFT_check_double",
                "SIMDSWIFT_check_float"}

\* the instructions the machine has a meaning for
CanRun(rec) ==
    \/ rec.op \in {"ret", "br", "store", "load", "phi", "select", "getelementptr",
                   "insertelement", "shufflevector", "extractelement",
                   "add", "sub", "and", "or", "xor", "icmp", "fcmp"} \cup CastOps
    \/ /\ rec.op = "call"
       /\ rec.callee.k = "fn"
       /\ rec.callee.name \in VoteCallees \cup {"llvm.x86.avx.ptestz.256",
                                                "llvm.x86.avx.ptestnzc.256"}

CallResult(fn, m, rec, pick) ==
    CASE rec.callee.name = "llvm.x86.avx.ptestz.256" ->
            PTestZ(OperandVal(m, rec.ops[1]), OperandVal(m, rec.ops[2]))
      [] rec.callee.name = "llvm.x86.avx.ptestnzc.256" ->
            PTestNZC(OperandVal(m, rec.ops[1]), OperandVal(m, rec.ops[2]))
      [] OTHER -> Majority(OperandVal(m, rec.ops[1]), TypeOf(fn.vals, rec.ops[1]), pick)

\* the value an instruction defines
Compute(fn, m, rec, pick) ==
    CASE rec.op = "insertelement" -> EvalSplat(OperandVal(m, rec.ops[1]), rec.ty.n)
      [] rec.op = "shufflevector" ->
            EvalShuffle(OperandVal(m, rec.ops[1]), TypeOf(fn.vals, rec.ops[1]), rec.imm)
      [] rec.op = "extractelement" ->
            EvalExtract(OperandVal(m, rec.ops[1]), TypeOf(fn.vals, rec.ops[1]), rec.imm[1])
      [] rec.op \in CastOps ->
            EvalCast(rec.op, OperandVal(m, rec.ops[1]), TypeOf(fn.vals, rec.ops[1]), rec.ty)
      [] rec.op = "icmp" ->
            EvalCmp(rec.pred, OperandVal(m, rec.ops[1]), OperandVal(m, rec.ops[2]),
                    TypeOf(fn.vals, rec.ops[1]))
      [] rec.op = "fcmp" ->
            EvalFCmp(rec.pred, OperandVal(m, rec.ops[1]), OperandVal(m, rec.ops[2]),
                     TypeOf(fn.vals, rec.ops[1]))
      [] rec.op \in {"add", "sub", "and", "or", "xor"} ->
            EvalBin(rec.op, OperandVal(m, rec.ops[1]), OperandVal(m, rec.ops[2]), rec.ty)
      [] rec.op = "select" ->
            EvalSelect(OperandVal(m, rec.ops[1]), OperandVal(m, rec.ops[2]),
                       OperandVal(m, rec.ops[3]), TypeOf(fn.vals, rec.ops[1]), rec.ty)
      [] rec.op = "getelementptr" ->
            EvalGep(OperandVal(m, rec.ops[1]), OperandVal(m, rec.ops[2]),
                    TypeOf(fn.vals, rec.ops[2]), rec.imm[1])
      [] rec.op = "phi" -> OperandVal(m, IncomingValueForBlock(rec, m.prev))
      [] rec.op = "load" -> MemRead(m.mem, OperandVal(m, rec.ops[1]), W(rec.ty.e))
      [] OTHER -> CallResult(fn, m, rec, pick)

\* the predicate shadow the branch of a head block tests:
\* br (icmp eq (call ptestnzc(x, all-ones)), 1)
TestedShadow(fn, rec) == fn.vals[fn.vals[rec.ops[1].id].ops[1].id].ops[1]

\* one instruction; ft = [site, lane] is the fault to inject (site 0: none)
ExecStep(fn, m, ft, pick) ==
    LET I == fn.blocks[m.b][m.k]
        rec == fn.vals[I]
        Stop(what) == [m EXCEPT !.halt = TRUE, !.obs = Append(@, <<what>>)]
        Jump(target, seen) ==
            [m EXCEPT !.prev = m.b, !.b = target, !.k = 1, !.fuel = @ - 1,
                      !.obs = IF seen THEN Append(@, <<"br", target>>) ELSE @,
                      !.guards = IF rec.imm # <<1, 10000>> THEN @
                                 ELSE Append(@, [x |-> OperandVal(m, TestedShadow(fn, rec)),
                                                 taken |-> target = rec.succ[1]])]
        Write(v, a) ==
            [m EXCEPT !.mem = Append(@, [a |-> a, v |-> v]), !.k = @ + 1, !.fuel = @ - 1,
                      !.obs = Append(@, <<"store", a, v>>)]
        Define(r) ==
            IF ft.site = I /\ ~m.hit /\ ft.lane < NLanes(rec.ty)
            THEN [m EXCEPT !.env[I] = Corrupt(r, rec.ty, ft.lane), !.hit = TRUE,
                           !.k = @ + 1, !.fuel = @ - 1]
            ELSE [m EXCEPT !.env[I] = r, !.k = @ + 1, !.fuel = @ - 1]
        Vote(x, t) ==
            [Define(Majority(x, t, pick)) EXCEPT !.loose = @ \/ Agreed(x, t) = {}]
    IN IF ~CanRun(rec) THEN Stop("stuck")
       ELSE IF rec.op = "ret" THEN [m EXCEPT !.halt = TRUE]
       ELSE IF rec.op = "br"
       THEN (IF Len(rec.ops) = 0 THEN Jump(rec.succ[1], FALSE)
             ELSE Jump(IF OperandVal(m, rec.ops[1])[1] % 2 = 1 THEN rec.succ[1]
                       ELSE rec.succ[2],
                       rec.imm # <<1, 10000>>))
       ELSE IF rec.op = "store"
       THEN Write(OperandVal(m, rec.ops[1]), OperandVal(m, rec.ops[2]))
       ELSE IF rec.op = "phi" /\ ~InSeq(m.prev, rec.succ) THEN Stop("stuck")
       ELSE IF rec.op = "call" /\ rec.callee.name \in VoteCallees
       THEN Vote(OperandVal(m, rec.ops[1]), TypeOf(fn.vals, rec.ops[1]))
       ELSE Define(Compute(fn, m, rec, pick))

RECURSIVE Run(_, _, _, _)
Run(fn, m, ft, pick) ==
    IF m.halt THEN m
    ELSE IF m.fuel = 0 THEN [m EXCEPT !.halt = TRUE, !.obs = Append(@, <<"timeout">>)]
    ELSE Run(fn, ExecStep(fn, m, ft, pick), ft, pick)

\* the bytes of argument i for input x: a pointer argument is an address of
\* its own, an integer argument holds x
ArgBytes(t, i, x) ==
    IF t.e = "ptr" THEN BytesOf(64 * i, 8)
    ELSE IF t.e = "i1" THEN <<x % 2>>
    ELSE BytesOf(x, W(t.e))

\* the machine at the entry of fn, called with the given input
Entry(fn, layout1, input) ==
    [env |-> [i \in 1..Len(fn.vals) |->
                 IF fn.vals[i].op = "arg" THEN ArgBytes(fn.vals[i].ty, i, input[i]) ELSE <<>>],
     mem |-> <<>>, obs |-> <<>>, b |-> layout1, k |-> 1, prev |-> 0, fuel |-> MaxSteps,
     halt |-> FALSE, hit |-> FALSE, loose |-> FALSE, guards |-> <<>>]

NoFault == [site |-> 0, lane |-> 0]

NumArgs == Cardinality({i \in 1..Len(Programs[prog].vals) : Programs[prog].vals[i].op = "arg"})

\* the inputs: a value for every argument that is not a pointer
Inputs ==
    {input \in [1..NumArgs -> 0..MaxInput] :
        \A i \in 1..NumArgs : Programs[prog].vals[i].ty.e = "ptr" => input[i] = 0}

\* the shadows the pass registered in the shadow map
ShadowSites == {simds[v].id : v \in {x \in DOMAIN simds : simds[x].k = "v"}}

\* the comparisons the function made as it was, each with its result and
\* with what its shadow holds at the end of the hardened run
Compared(o, h) ==
    {[i |-> i, truth |-> o.env[i], shadow |-> OperandVal(h, simds[V(i)])] :
        i \in {j \in 1..Len(Programs[prog].vals) :
                  /\ Programs[prog].vals[j].op \in CmpOps
                  /\ HasSimd(simds, V(j))
                  /\ o.env[j] # <<>>}}

\* the function is run three times on one input: as it was, hardened, and
\* hardened with one fault
Execute ==
    /\ pc = "done"
    /\ ~aborted
    /\ \E input \in Inputs, pick \in {0, 1},
          ft \in {NoFault} \cup [site : ShadowSites, lane : 0..MaxFaultLane] :
          LET Record(o, h, f) ==
                  exec' = [input |-> input, site |-> ft.site, lane |-> ft.lane,
                           pick |-> pick, hit |-> f.hit, loose |-> h.loose \/ f.loose,
                           orig |-> o.obs, hard |-> h.obs, faulty |-> f.obs,
                           guards |-> h.guards, cmps |-> Compared(o, h),
                           oenv |-> o.env, henv |-> h.env, fenv |-> f.env]
              hardened == [vals |-> vals, blocks |-> blocks]
          IN Record(Run(Programs[prog], Entry(Programs[prog], 1, input), NoFault, pick),
                    Run(hardened, Entry(hardened, layout[1], input), NoFault, pick),
                    Run(hardened, Entry(hardened, layout[1], input), ft, pick))
    /\ pc' = "ran"
    /\ UNCHANGED <<variant, linked, helpers, flags, prog, vals, blocks, layout, simds, origs,
                   phis, tocheck, todo, cur, visited, shadowedArgs, aborted, trace, run, ret>>

InitExec ==
    /\ prog \in ExecPrograms
    /\ variant \in ExecVariants(prog)
    /\ linked = Runtime
    /\ helpers = FindHelperFuncs(variant, Runtime).refs
    /\ flags \in {{}, {"no-check-all"}}
    /\ vals = Programs[prog].vals
    /\ blocks = Programs[prog].blocks
    /\ layout = [b \in 1..Len(Programs[prog].blocks) |-> b]
    /\ simds = EmptyMap
    /\ origs = <<>>
    /\ phis = <<>>
    /\ tocheck = <<>>
    /\ pc = "idle"
    /\ todo = <<>>
    /\ cur = NoPos
    /\ visited = {}
    /\ shadowedArgs = FALSE
    /\ aborted = FALSE
    /\ trace = <<>>
    /\ run = 0
    /\ ret = NoCall
    /\ exec = NoExec

NextExec ==
    \/ BeginRun
    \/ RewriteDom
    \/ RewriteRest
    \/ DoRewirePhis
    \/ DoInsertChecks
    \/ DoRemoveOriginalInsts
    \/ Execute

SpecExec == InitExec /\ [][NextExec]_vars

\* C2: without a fault the hardened function makes the same stores (address
\* and value, in order) and takes the same branches as the function it was
\* made from.
C2_FaultFreeEquivalence == (pc = "ran" /\ ~exec.loose) => exec.hard = exec.orig

\* C1: with every check enabled, one flipped lane of one shadow leaves the
\* stores and the branch targets of the hardened function what they are
\* without the fault.
C1_SingleFaultCorrected ==
    (pc = "ran" /\ flags = {} /\ exec.hit /\ ~exec.loose) => exec.faulty = exec.hard

\* the four 64-bit lanes of a predicate shadow are equal
LanesEqual(x) == \A i \in 1..4 : Lane(x, Ty("i64", 4), i) = Lane(x, Ty("i64", 4), 1)

\* C14: in a run without a fault, the branch of a head block enters the check
\* block exactly when the lanes of the predicate shadow it tests are not all
\* equal; with four equal lanes the check block is not entered.
C14_FlagIffLanesDiffer ==
    pc = "ran" => \A i \in 1..Len(exec.guards) :
                     exec.guards[i].taken <=> ~LanesEqual(exec.guards[i].x)

(***************************************************************************)
(* Inline checks of the full hardener (Spec).                              *)
(***************************************************************************)
\* the flag of the category of a non-branch sink ("" when it has none)
CategoryFlag(op) ==
    CASE op = "load"                     -> "no-check-load"
      [] op = "store"                    -> "no-check-store"
      [] op \in {"cmpxchg", "atomicrmw"} -> "no-check-atomic"
      [] op = "call"                     -> "no-check-call"
      [] OTHER                           -> ""

Enabled(op) == "no-check-all" \notin flags /\ CategoryFlag(op) \notin flags

\* the queued obligations whose sink is not a branch
NonBranchObligations == {i \in 1..Len(tocheck) : vals[tocheck[i].user].op # "br"}

\* what the sink of obligation o has in the place the obligation names
SinkOperand(o) == IF o.idx = 0 - 1 THEN vals[o.user].callee ELSE vals[o.user].ops[o.idx + 1]

\* the type the input function gave that place
InputOperandType(o) ==
    IF o.idx = 0 - 1 THEN Ty("ptr", 0)
    ELSE TypeOf(Programs[prog].vals, Programs[prog].vals[o.user].ops[o.idx + 1])

VoteNameFor(e) ==
    CASE e \in {"i64", "ptr"} -> "SIMDSWIFT_check_i64"
      [] e = "i32"            -> "SIMDSWIFT_check_i32"
      [] e = "i16"            -> "SIMDSWIFT_check_i16"
      [] e = "i8"             -> "SIMDSWIFT_check_i8"
      [] e = "double"         -> "SIMDSWIFT_check_double"
      [] e = "float"          -> "SIMDSWIFT_check_float"

\* w is the corrected shadow of src: the vote of src, or for pointers the
\* vote of src cast to four i64 lanes, cast back to pointers
IsCorrected(w, src) ==
    LET t == TypeOf(vals, src)
        vote == IF t.e = "ptr" THEN SkipOp(w, "inttoptr") ELSE w
    IN /\ IsCallOf(vote, {VoteNameFor(t.e)})
       /\ TypeOf(vals, w) = t
       /\ IF t.e = "ptr"
          THEN /\ OpOf(vals, w) = "inttoptr"
               /\ LET c == vals[vote.id].ops[1]
                  IN /\ OpOf(vals, c) = "ptrtoint"
                     /\ TypeOf(vals, c) = Ty("i64", 4)
                     /\ vals[c.id].ops = <<src>>
          ELSE vals[vote.id].ops = <<src>>

\* the vote of obligation o stands in the block of the sink, before the
\* sink, and only instructions made after it stand between the two
VoteJustBefore(w, o) ==
    LET vote == SkipOp(w, "inttoptr")
        b == BlockOf(blocks, o.user)
    IN /\ vote.id \in LiveInsts
       /\ BlockOf(blocks, vote.id) = b
       /\ PosIn(blocks[b], vote.id) < PosIn(blocks[b], o.user)
       /\ \A k \in (PosIn(blocks[b], vote.id) + 1)..(PosIn(blocks[b], o.user) - 1) :
             blocks[b][k] > vote.id

\* the sink of o has, in the place o names, lane 0 of the corrected shadow,
\* truncated when the place is narrower than a lane
HasCheckedOperand(o) ==
    LET x == SinkOperand(o)
        narrower == PrimBits(Ty(TypeOf(vals, o.src).e, 0)) > PrimBits(InputOperandType(o))
        e == IF narrower /\ o.idx # 0 - 1 THEN SkipOp(x, "trunc") ELSE x
    IN /\ (narrower /\ o.idx # 0 - 1) => OpOf(vals, x) = "trunc"
       /\ TypeOf(vals, x) = InputOperandType(o)
       /\ OpOf(vals, e) = "extractelement"
       /\ vals[e.id].imm = <<0>>
       /\ IsCorrected(vals[e.id].ops[1], o.src)
       /\ VoteJustBefore(vals[e.id].ops[1], o)

ChecksInserted == pc \in {"delete", "done"} /\ run = 1 /\ ~aborted

\* the claim as it is written: every queued non-branch obligation of an
\* enabled category
C15_Original ==
    ChecksInserted =>
        \A i \in NonBranchObligations :
            Enabled(vals[tocheck[i].user].op) =>
                tocheck[i].src # None /\ HasCheckedOperand(tocheck[i])

\* C15: after the check injection of the full hardener, for every queued
\* non-branch obligation (sink, shadowSource, opIndex) whose shadow source
\* is an instruction and whose category is enabled, the vote helper of the
\* lane type was called on the shadow source in the sink's block before the
\* sink with nothing but later check code between them (a pointer shadow is
\* cast to four i64 lanes, voted by check_i64 and cast back), and the sink
\* has in place opIndex lane 0 of the corrected shadow, truncated when the
\* place is narrower than a lane; for opIndex -1 it is the callee of the
\* indirect call that is overwritten.  An obligation without a shadow source
\* (a constant operand) or of a disabled category leaves the place as the
\* rewriter made it.
C15_InlineCheckSubstitution ==
    ChecksInserted =>
        \A i \in NonBranchObligations :
            IF tocheck[i].src # None /\ Enabled(vals[tocheck[i].user].op)
            THEN HasCheckedOperand(tocheck[i])
            ELSE ~IsVotedBefore(SinkOperand(tocheck[i]), tocheck[i].user)

\* a call through a function pointer got its callee voted, a store got a
\* pointer and a truncated i1 or an untruncated value voted
C15_Witness ==
    /\ ChecksInserted
    /\ flags = {}
    /\ \E i \in NonBranchObligations :
          /\ tocheck[i].idx = 0 - 1
          /\ HasCheckedOperand(tocheck[i])
    /\ \E i \in NonBranchObligations :
          /\ vals[tocheck[i].user].op = "store"
          /\ tocheck[i].src # None
          /\ TypeOf(vals, tocheck[i].src).e = "ptr"
          /\ HasCheckedOperand(tocheck[i])

\* the rewriter was called on instruction u
Rewritten(u) == \E j \in 1..Len(trace) : trace[j].e = "simdInst" /\ trace[j].i = u

\* the loads of the input function whose address is not a constant
CheckedLoads ==
    {u \in 1..Len(Programs[prog].vals) :
        /\ Programs[prog].vals[u].op = "load"
        /\ ~IsConstant(Programs[prog].vals[u].ops[1])}

\* the obligations queued for the address of load u
LoadObligations(u) ==
    {i \in 1..Len(tocheck) :
        /\ tocheck[i].user = u
        /\ tocheck[i].idx = 0
        /\ tocheck[i].src # None
        /\ IsShadowOf(tocheck[i].src, Programs[prog].vals[u].ops[1])}

\* C16: in the full hardener every load whose address is not a constant
\* has, from the moment the rewriter was called on it, one check obligation
\* queued for the shadow of its address, and after the check injection the
\* load takes its address from lane 0 of the majority vote made on that
\* shadow before the load, unless no-check-load or no-check-all is set.
C16_LoadAddressChecked ==
    (run = 1 /\ ~aborted) =>
        \A u \in CheckedLoads :
            /\ Rewritten(u) => Cardinality(LoadObligations(u)) = 1
            /\ ChecksInserted =>
                  \A i \in LoadObligations(u) :
                      HasCheckedOperand(tocheck[i])
                          <=> ~({"no-check-load", "no-check-all"} \cap flags # {})

\* a load got the check of its address
C16_Witness ==
    /\ ChecksInserted
    /\ flags = {}
    /\ \E u \in CheckedLoads : \E i \in LoadObligations(u) : HasCheckedOperand(tocheck[i])

(***************************************************************************)
(* The check-disable flags in both hardeners (SpecModule).                 *)
(***************************************************************************)
\* obligation i of tocheck has its check in the function
ObligationChecked(i) ==
    IF vals[tocheck[i].user].op = "br" THEN IsGuardedBranch(tocheck[i].user)
    ELSE tocheck[i].src # None /\ HasCheckedOperand(tocheck[i])

\* the flags leave the check of obligation i on
CategoryOn(i) ==
    IF vals[tocheck[i].user].op = "br" THEN "no-check-branch" \notin flags
    ELSE CategoryFlag(vals[tocheck[i].user].op) \notin flags

\* a step of the check injection that came to its end
ChecksStep == pc = "checks" /\ pc' = "delete"

DeletionEvents == SelectSeq(trace, LAMBDA ev : ev.e \in {"erased", "kept"})
EmptiedEvents == SelectSeq(trace, LAMBDA ev : ev.e = "emptied")

\* the instructions of the function that have value x as an operand or callee
UsersOf(x) ==
    {u \in LiveInsts : vals[u].callee = V(x) \/ \E k \in 1..Len(vals[u].ops) : vals[u].ops[k] = V(x)}

\* C18: when the full hardener has deleted the originals, every recorded
\* phi node was emptied before the first original was visited, the
\* originals were visited in the reverse of the order they were recorded in,
\* an original that was erased is gone and no instruction of the function
\* refers to it, and an original that was logged as still used is in place
\* and has a user.
C18_DeletionProtocol ==
    HardenedOnce =>
        /\ Len(EmptiedEvents) = Len(phis)
        /\ \A k \in 1..Len(phis) : EmptiedEvents[k].i = phis[k]
        /\ \A j, k \in 1..Len(trace) :
              (trace[j].e = "emptied" /\ trace[k].e \in {"erased", "kept"}) => j < k
        /\ Len(DeletionEvents) = Len(origs)
        /\ \A k \in 1..Len(origs) :
              LET ev == DeletionEvents[k]
              IN /\ ev.i = origs[Len(origs) + 1 - k]
                 /\ IF ev.e = "erased"
                    THEN ev.i \notin LiveInsts /\ vals[ev.i].op = "erased" /\ UsersOf(ev.i) = {}
                    ELSE ev.i \in LiveInsts /\ vals[ev.i].op # "erased" /\ UsersOf(ev.i) # {}
        /\ \A u \in LiveInsts :
              /\ vals[u].op # "erased"
              /\ \A k \in 1..Len(vals[u].ops) :
                    vals[u].ops[k].k = "v" => vals[vals[u].ops[k].id].op # "erased"
              /\ vals[u].callee.k = "v" => vals[vals[u].callee.id].op # "erased"

\* one original was erased and another, still used, was left in place
C18_Witness ==
    /\ HardenedOnce
    /\ \E j, k \in 1..Len(DeletionEvents) :
          DeletionEvents[j].e = "erased" /\ DeletionEvents[k].e = "kept"

(***************************************************************************)
(* Fatal errors of the rewriter (SpecModule).                              *)
(***************************************************************************)
\* the instruction kinds simdInst has a rule for
RuleOps ==
    {"ret", "switch", "br", "indirectbr", "unreachable", "select", "getelementptr", "phi",
     "alloca", "load", "va_arg", "store", "cmpxchg", "atomicrmw", "extractvalue",
     "insertvalue", "call", "fence"} \cup BinaryOps \cup CmpOps \cup AllCastOps

\* what the rewriter of a hardener refuses
IsFatalFor(var, rec) ==
    \/ rec.op \in {"invoke", "landingpad", "resume"}
    \/ rec.op = "call" /\ rec.callee.k = "asm" /\ rec.callee.name # ""
    \/ rec.op \notin RuleOps
    \/ var = "fp" /\ rec.op = "cmpxchg"

PhaseEvents == {"rewirePhis", "rewired", "insertChecks", "checked", "removeOriginalInsts",
                "emptied", "erased", "kept", "done"}

\* C19: when the rewriter of the full or of the FP-only hardener is called
\* on an invoke, a landing pad, a resume, a call of non-empty inline
\* assembly, an instruction of a kind it has no rule for or, in the FP-only
\* hardener, a cmpxchg, the pass aborts in that call; the traversal stays at
\* that instruction, and once aborted the pass takes no further step: no
\* later instruction is rewritten and no phi rewiring, check injection or
\* deletion is done.
C19_FatalErrorsStop ==
    [][/\ ~aborted
       /\ (/\ pc \in {"dom", "rest"}
           /\ variant \in {"full", "fp"}
           /\ IsFatalFor(variant, vals[cur.i]))
             => /\ aborted'
                /\ pc' = pc
                /\ cur' = cur
                /\ trace'[Len(trace')].e = "simdInst"
                /\ trace'[Len(trace')].i = cur.i
                /\ \A j \in 1..Len(trace') : trace'[j].e \notin PhaseEvents]_vars

\* the FP-only hardener stopped at a cmpxchg
C19_Witness ==
    /\ aborted
    /\ variant = "fp"
    /\ pc \in {"dom", "rest"}
    /\ vals[cur.i].op = "cmpxchg"
    /\ trace[Len(trace)] = Ev("simdInst", cur.i, cur.b)

(***************************************************************************)
(* Helper resolution (SpecModule).                                         *)
(***************************************************************************)
\* the helpers each pass needs, by name
RequiredHelpers ==
    CASE variant = "full" ->
            {"SIMDSWIFT_exit", "SIMDSWIFT_mask_i64"} \cup VoteNames
      [] variant = "fp" ->
            {"SIMDSWIFT_exit", "SIMDSWIFT_mask_i64", "SIMDSWIFT_check_double",
             "SIMDSWIFT_check_float"}
      [] variant = "native" ->
            {"SIMDSWIFT_dummy_extract", "SIMDSWIFT_dummy_broadcast", "SIMDSWIFT_dummy_ptest"}

MissingHelpers == RequiredHelpers \ linked

\* nothing of runOnFunction happened yet
Untouched ==
    /\ run = 0
    /\ trace = <<>>
    /\ vals = Programs[prog].vals
    /\ blocks = Programs[prog].blocks

\* C20: doInitialization of each pass looks up every helper the pass needs
\* by its name (full: exit, mask_i64 and the six votes; FP-only: exit,
\* mask_i64, check_double and check_float; native-cost: the three dummy
\* markers) and caches what it finds; if one of them is missing the pass
\* aborts there, before any function is transformed; otherwise every cached
\* reference is a function, and no step after the initialisation writes a
\* cached reference.
C20_HelperResolution ==
    /\ [](/\ pc # "init" => (MissingHelpers = {} /\ ~(aborted /\ Untouched))
          /\ (pc = "init" /\ aborted) => (MissingHelpers # {} /\ Untouched)
          /\ (pc # "init" \/ aborted) =>
                /\ DOMAIN helpers = RequiredHelpers
                /\ \A h \in RequiredHelpers :
                      helpers[h] = IF h \in linked THEN Fn(h) ELSE None)
    /\ [][/\ pc = "init" => (aborted' <=> MissingHelpers # {})
          /\ pc # "init" => helpers' = helpers]_vars

\* the native-cost pass stopped at its initialisation: a marker is missing
C20_Witness ==
    /\ pc = "init"
    /\ aborted
    /\ variant = "native"
    /\ MissingHelpers = {"SIMDSWIFT_dummy_ptest"}
    /\ helpers["SIMDSWIFT_dummy_extract"] = Fn("SIMDSWIFT_dummy_extract")

(***************************************************************************)
(* Properties of the native-cost pass (SpecModule, variant "native").      *)
(***************************************************************************)
\* the native-cost pass ran on a function it does not skip, to its end
MarkedOnce ==
    /\ variant = "native"
    /\ pc = "done"
    /\ run = 1
    /\ ~aborted
    /\ ~IsIgnoredFuncNative(Fn(Programs[prog].name))

\* how many of the first n operands of an instruction are not constants
NonConstAmong(rec, n) == Cardinality({i \in 1..n : ~IsConstant(rec.ops[i])})

Times(n, x) == [i \in 1..n |-> x]

\* the markers the instruction rec gets before it, every conditional branch
\* counted (everyBranch) or only the ones on a condition that is no constant
MarkersBefore(rec, everyBranch) ==
    CASE rec.op = "br" ->
            IF Len(rec.ops) = 1 /\ (everyBranch \/ ~IsConstant(rec.ops[1]))
            THEN <<"SIMDSWIFT_dummy_ptest">> ELSE <<>>
      [] rec.op = "load"      -> Times(NonConstAmong(rec, 1), "SIMDSWIFT_dummy_extract")
      [] rec.op = "store"     -> Times(NonConstAmong(rec, 2), "SIMDSWIFT_dummy_extract")
      [] rec.op = "cmpxchg"   -> Times(NonConstAmong(rec, 3), "SIMDSWIFT_dummy_extract")
      [] rec.op = "atomicrmw" -> Times(NonConstAmong(rec, 2), "SIMDSWIFT_dummy_extract")
      [] OTHER                -> <<>>

MarkersAfter(rec) ==
    IF rec.op \in {"load", "cmpxchg", "atomicrmw"} THEN <<"SIMDSWIFT_dummy_broadcast">>
    ELSE <<>>

\* a block as the claim reads it: an instruction of the input function by its
\* number, a call the pass placed by the name of what it calls
Tagged(b) ==
    [k \in 1..Len(blocks[b]) |->
        LET i == blocks[b][k]
        IN IF i <= Len(Programs[prog].vals) THEN <<"orig", i>>
           ELSE IF vals[i].op = "call" /\ vals[i].ops = <<>> THEN <<"call", vals[i].callee.name>>
           ELSE <<"other", i>>]

Calls(names) == [k \in 1..Len(names) |-> <<"call", names[k]>>]

\* the block the markers make of a sequence of input instructions
RECURSIVE Marked(_, _)
Marked(is, everyBranch) ==
    IF is = <<>> THEN <<>>
    ELSE LET rec == Programs[prog].vals[Head(is)]
         IN Calls(MarkersBefore(rec, everyBranch)) \o << <<"orig", Head(is)>> >>
            \o Calls(MarkersAfter(rec)) \o Marked(Tail(is), everyBranch)

\* no instruction of the input function was changed
OriginalsKept ==
    /\ Len(blocks) = Len(Programs[prog].blocks)
    /\ \A i \in 1..Len(Programs[prog].vals) : vals[i] = Programs[prog].vals[i]

AllValues ==
    {V(i) : i \in 1..Len(vals)}
    \cup UNION {{vals[i].ops[k] : k \in 1..Len(vals[i].ops)} : i \in 1..Len(vals)}

\* an instruction of the input function with no float or double operand or
\* result and no operand that has a shadow
IsNonFPInst(i) ==
    LET rec == Programs[prog].vals[i]
    IN /\ rec.op # "arg"
       /\ ~IsFPTy(rec.ty)
       /\ \A k \in 1..Len(rec.ops) :
             /\ ~IsFPTy(TypeOf(Programs[prog].vals, rec.ops[k]))
             /\ ~HasSimd(simds, rec.ops[k])

\* the lookup of a value of another type than float and double that has no
\* shadow gives "none" and does not fail
LookupPassesThrough ==
    \A v \in AllValues :
        (~IsFPTy(TypeOf(vals, v)) /\ ~HasSimd(simds, v)) =>
            GetSimdFP(vals, simds, v, v) = [ok |-> TRUE, r |-> None]

\* instruction i is not in the hands of the transformer
NotTaken(i) ==
    /\ ~InSeq(i, origs)
    /\ ~HasSimd(simds, V(i))
    /\ \A k \in 1..Len(tocheck) : tocheck[k].user # i

\* the entries a phi got on top of the ones it had: each for a block the
\* pass made, with a value the phi had before
OnlyCheckEdgesAdded(i) ==
    LET rec == Programs[prog].vals[i]
    IN /\ rec.op = "phi"
       /\ Len(vals[i].ops) >= Len(rec.ops)
       /\ SubSeq(vals[i].ops, 1, Len(rec.ops)) = rec.ops
       /\ \A k \in (Len(rec.ops) + 1)..Len(vals[i].ops) :
             /\ vals[i].succ[k] > Len(Programs[prog].blocks)
             /\ InSeq(vals[i].ops[k], rec.ops)

\* C22 as stated: in the FP-only hardener the lookup of a non-float,
\* non-double value without a shadow gives "none" without failing, and
\* every instruction with no float/double operand or result and no operand
\* with a shadow keeps its operands, is not scheduled for deletion, has no
\* shadow and no obligation.
C22_Original ==
    variant = "fp" =>
        /\ LookupPassesThrough
        /\ \A i \in 1..Len(Programs[prog].vals) :
              IsNonFPInst(i) => (vals[i].ops = Programs[prog].vals[i].ops /\ NotTaken(i))

\* C22: the same, except that check injection gives a phi at the head of a
\* successor of a checked branch one more entry, for the block of the check;
\* up to check injection the operands are the ones of the input.
C22_FPPassThrough ==
    variant = "fp" =>
        /\ LookupPassesThrough
        /\ \A i \in 1..Len(Programs[prog].vals) :
              IsNonFPInst(i) =>
                 /\ NotTaken(i)
                 /\ \/ vals[i].ops = Programs[prog].vals[i].ops
                    \/ pc \in {"delete", "done"} /\ OnlyCheckEdgesAdded(i)

\* the FP-only hardener came to the end of a function that branches on a
\* comparison of doubles into the block of an integer phi: the comparison
\* has a shadow, the store of the phi is as it was, the phi has one more entry
C22_Witness ==
    /\ variant = "fp"
    /\ pc = "done"
    /\ ~aborted
    /\ Programs[prog].name = "fcmpbrphi"
    /\ HasSimd(simds, V(5))
    /\ IsNonFPInst(9) /\ OnlyCheckEdgesAdded(9) /\ Len(vals[9].ops) = 3
    /\ IsNonFPInst(10) /\ vals[10] = Programs[prog].vals[10]

(***************************************************************************)
(* Properties of the shadows at run time (SpecExec).                       *)
(***************************************************************************)
\* the comparisons of the input function that got a shadow
ShadowedCmps ==
    {i \in 1..Len(Programs[prog].vals) :
        Programs[prog].vals[i].op \in CmpOps /\ HasSimd(simds, V(i))}

\* C23: the shadow registered for an icmp or fcmp is a vector of 4 lanes of
\* i64 whatever the compared type, and after a run without a fault each of
\* its 64-bit lanes is all-ones when the comparison of the input function
\* gave true and zero when it gave false.
C23_WidePredicate ==
    /\ \A i \in ShadowedCmps : TypeOf(vals, simds[V(i)]) = Ty("i64", 4)
    /\ \A c \in exec.cmps :
          c.shadow = IF c.truth = <<1>> THEN AllOnesBytes(32) ELSE ZeroBytes(32)

\* the branches of the input function the rewriter has worked on
SeenBranches ==
    {i \in 1..Len(Programs[prog].vals) :
        /\ Programs[prog].vals[i].op = "br"
        /\ \E k \in 1..Len(trace) : trace[k].e = "simdInst" /\ trace[k].i = i}

\* a branch of the input function that has a condition, and one is no constant
HasFreeCondition(i) ==
    /\ Len(Programs[prog].vals[i].ops) = 1
    /\ ~IsConstant(Programs[prog].vals[i].ops[1])

\* the shadow of the condition branch i had
PredicateOf(i) == simds[Programs[prog].vals[i].ops[1]]

\* v is icmp eq (call ptestz(s, all-ones)), 0
IsPTestZOf(v, s) ==
    /\ OpOf(vals, v) = "icmp"
    /\ vals[v.id].pred = "eq"
    /\ vals[v.id].ops[2] = CInt("i32", 0)
    /\ IsCallOf(vals[v.id].ops[1], {"llvm.x86.avx.ptestz.256"})
    /\ vals[vals[v.id].ops[1].id].ops = <<s, GetSimdAllOnes>>

ObligationsOn(i) == SelectSeq(tocheck, LAMBDA o : o.user = i)

\* the conditional branches on a condition that is no constant, after the
\* run: the condition was computed in the function as it was and the test
\* in the hardened function
RanBranches ==
    {i \in SeenBranches :
        /\ HasFreeCondition(i)
        /\ OperandVal([env |-> exec.oenv], Programs[prog].vals[i].ops[1]) # <<>>
        /\ exec.henv[vals[i].ops[1].id] # <<>>}

\* C24: once the rewriter of the full hardener has worked on a conditional
\* branch whose condition is no constant, the condition is
\* icmp eq (ptestz(shadow of the condition, all-ones), 0), which is true
\* exactly when some bit of the shadow is set, and the list of obligations
\* holds exactly one entry for the branch, (branch, shadow, 0); in a run
\* without a fault the new condition has the value the old one has in the
\* function as it was.  A branch without a condition or on a constant keeps
\* its operands and gets no obligation.
C24_BranchRewiring ==
    (run = 1 /\ ~aborted) =>
        /\ \A i \in SeenBranches :
              IF HasFreeCondition(i) /\ (variant = "full" \/ HasSimd(simds, Programs[prog].vals[i].ops[1]))
              THEN /\ IsPTestZOf(vals[i].ops[1], PredicateOf(i))
                   /\ ObligationsOn(i) = <<Obl(i, PredicateOf(i), 0)>>
              ELSE /\ vals[i] = Programs[prog].vals[i]
                   /\ ObligationsOn(i) = <<>>
        /\ pc = "ran" =>
              \A i \in RanBranches :
                 /\ exec.henv[vals[i].ops[1].id] = <<1>>
                       <=> ~IsZeroBytes(OperandVal([env |-> exec.henv], PredicateOf(i)))
                 /\ exec.henv[vals[i].ops[1].id]
                       = OperandVal([env |-> exec.oenv], Programs[prog].vals[i].ops[1])

(***************************************************************************)
(* Properties of the traversal (Spec, the first run).                      *)
(***************************************************************************)
\* the rewriter calls of the first run, in order
RewriterCalls == SelectSeq(SubSeq(trace, 1, FirstRunLen), LAMBDA ev : ev.e = "simdInst")

RECURSIVE Collapse(_)
Collapse(seq) ==
    IF Len(seq) <= 1 THEN seq
    ELSE IF seq[1] = seq[2] THEN Collapse(Tail(seq))
    ELSE <<seq[1]>> \o Collapse(Tail(seq))

\* the blocks in the order the rewriter entered them
VisitOrder == Collapse([k \in 1..Len(RewriterCalls) |-> RewriterCalls[k].b])

\* the traversal loops of the first run are over
Traversed == (run > 1 \/ pc \in {"rewire", "checks", "delete", "done"}) /\ trace # <<>>

TreeBlocks == Reachable(InputFn)

\* where block b stands in the order of the visits
VisitOf(b) == CHOOSE k \in 1..Len(VisitOrder) : VisitOrder[k] = b

\* the visits of the blocks of the tree are a depth-first preorder of it:
\* the root first, and right after a block all the blocks it dominates
IsDepthFirst ==
    /\ VisitOrder[1] = EntryBlock(InputFn)
    /\ \A d \in TreeBlocks :
          LET sub == {b \in TreeBlocks : Dominates(InputFn, d, b)}
          IN {VisitOf(b) : b \in sub} = VisitOf(d)..(VisitOf(d) + Cardinality(sub) - 1)

\* C25: in a run every block is entered by the rewriter once; the blocks of
\* the dominator tree come first, in a depth-first order from the root (a
\* block after its immediate dominator), the other blocks after them in
\* the order of the function; the arguments are shadowed once, before the
\* first rewriter call.
C25_TraversalCoverage ==
    /\ \A j, k \in 1..Len(VisitOrder) : VisitOrder[j] = VisitOrder[k] => j = k
    /\ Cardinality({j \in 1..FirstRunLen : trace[j].e = "simdArgs"}) <= 1
    /\ \A j \in 1..FirstRunLen :
          trace[j].e = "simdInst" => \E k \in 1..(j - 1) : trace[k].e = "simdArgs"
    /\ Traversed =>
          /\ {VisitOrder[k] : k \in 1..Len(VisitOrder)} = 1..Len(InputFn.blocks)
          /\ IsDepthFirst
          /\ \A b \in TreeBlocks \ {EntryBlock(InputFn)} : VisitOf(IDom(InputFn, b)) < VisitOf(b)
          /\ \A b \in TreeBlocks, c \in 1..Len(InputFn.blocks) :
                c \notin TreeBlocks => VisitOf(b) < VisitOf(c)
          /\ \A b, c \in (1..Len(InputFn.blocks)) \ TreeBlocks :
                b < c => VisitOf(b) < VisitOf(c)

\* the traversal of the function with a nested dominator tree and two blocks
\* outside it is over: 1, 2, 5, 4, then 3, 6
C25_Witness ==
    /\ Traversed
    /\ ~aborted
    /\ Programs[prog].name = "nested"
    /\ VisitOrder = <<1, 2, 5, 4, 3, 6>>

\* the lanes of a value x of vector type t are all equal
Uniform(x, t) == \A i \in 1..NLanes(t) : Lane(x, t, i) = Lane(x, t, 1)

\* the shadows the hardened function computed in the run without a fault
ComputedShadows == {s \in ShadowSites : exec.henv[s] # <<>>}

\* C26: after a run without a fault of a function the full hardener made,
\* every shadow that was computed (a splat, a binary operation, a
\* comparison, a select, a cast, a GEP, a phi) holds the same value in all
\* its lanes.
C26_ReplicationInvariant ==
    (pc = "ran" /\ variant = "full") =>
        \A s \in ComputedShadows : Uniform(exec.henv[s], vals[s].ty)

\* the lanes in which the shadow s of the faulty run differs from the run
\* without a fault
LanesOff(s) ==
    {i \in 1..NLanes(vals[s].ty) :
        Lane(exec.fenv[s], vals[s].ty, i) # Lane(exec.henv[s], vals[s].ty, i)}

\* the shadows both the faulty run and the run without a fault computed
\* with a rewritten binary operation, cast, select or GEP
DerivedShadows ==
    {s \in ShadowSites :
        /\ exec.henv[s] # <<>>
        /\ exec.fenv[s] # <<>>
        /\ vals[s].op \in BinaryOps \cup AllCastOps \cup {"select", "getelementptr", "shufflevector"}}

\* C27: a fault that corrupts one lane of one shadow leaves at most one lane
\* wrong in every shadow computed from it: the rewritten operations work
\* lane by lane.
C27_FaultContainment ==
    (pc = "ran" /\ variant = "full" /\ exec.hit) =>
        \A s \in DerivedShadows : Cardinality(LanesOff(s)) <= 1

\* the positions in the history at which a run of the pass started
RunStarts == {j \in 1..Len(trace) : trace[j].e = "start"}

\* the start of the run the k-th event of the history belongs to
StartOf(k) == CHOOSE j \in RunStarts : j <= k /\ \A m \in RunStarts : m <= k => m <= j

\* the rewriter calls of the whole history, as positions
CallsAt == {k \in 1..Len(trace) : trace[k].e = "simdInst"}

\* the instructions of the function the pass was given
InputInsts ==
    UNION {{InputFn.blocks[b][k] : k \in 1..Len(InputFn.blocks[b])} :
              b \in 1..Len(InputFn.blocks)}

\* C28: in every run the rewriter is called only on instructions the function
\* had when the run started, and on none of them twice; and when the
\* traversal of the first run is over, it was called on every instruction of
\* the input function.
C28_OnlyOriginals ==
    /\ \A k \in CallsAt : trace[k].i <= trace[StartOf(k)].i
    /\ \A k, m \in CallsAt :
          (k < m /\ StartOf(k) = StartOf(m)) => trace[k].i # trace[m].i
    /\ \A k \in CallsAt : StartOf(k) = 1 => trace[k].i \in InputInsts
    /\ (Traversed /\ (aborted => pc \in {"rewire", "checks", "delete", "done"})) =>
          \A i \in InputInsts : \E k \in CallsAt : StartOf(k) = 1 /\ trace[k].i = i

\* the traversal of the loop is over: the pass put splats, shadows and
\* extracts around the instructions, and the rewriter was called once on
\* each of the seven instructions of the input
C28_Witness ==
    /\ Traversed
    /\ ~aborted
    /\ Programs[prog].name = "loop"
    /\ Len(vals) > Len(Programs[prog].vals)
    /\ Len(RewriterCalls) = 7
    /\ {RewriterCalls[k].i : k \in 1..Len(RewriterCalls)} = InputInsts

\* the originals the deletion of the first run left in place
Survivors ==
    {trace[k].i : k \in {j \in 1..FirstRunLen : trace[j].e = "kept"}}

\* the instruction i has the operands the input function gave it, and a phi
\* has one incoming value per incoming block
Intact(i) ==
    /\ vals[i].ops = Programs[prog].vals[i].ops
    /\ vals[i].op = "phi" => Len(vals[i].succ) = Len(Programs[prog].vals[i].succ)

\* C29: after the deletion every original that was left in place because it
\* still has uses has all the operands it had, a phi one incoming value per
\* predecessor.
C29_SurvivorsIntact ==
    (run = 1 /\ pc = "done" /\ ~aborted) => \A i \in Survivors : Intact(i)

\* the obligations of the FP-only hardener on an instruction that is not a
\* branch, with a shadow instruction as their source
SinkObligations ==
    {k \in 1..Len(tocheck) : vals[tocheck[k].user].op # "br" /\ tocheck[k].src # None}

\* the operand the obligation o replaced keeps the type the input function
\* gave it
SameOperandType(o) ==
    TypeOf(vals, vals[o.user].ops[o.idx + 1])
        = TypeOf(Programs[prog].vals, Programs[prog].vals[o.user].ops[o.idx + 1])

\* C30: in the FP-only variant every obligation on a sink that is not a
\* branch has a shadow of float or double lanes, the scalar that replaced the
\* operand has the operand's type, and the check injection does not abort.
C30_FPObligationsTyped ==
    variant = "fp" =>
        /\ \A k \in SinkObligations :
              /\ TypeOf(vals, tocheck[k].src).e \in {"float", "double"}
              /\ SameOperandType(tocheck[k])
        /\ ~(aborted /\ trace # <<>> /\ trace[Len(trace)].e \in {"insertChecks", "checked"})

====
